---- MODULE Spec2Model ----
(***************************************************************************)
(* Browser Resource Manager (browser.js), the process shutdown handler and  *)
(* the POST /crawl handler with its extraction pipeline (server.js, in its *)
(* fire-and-forget and its synchronous variant) of brandspot-puppy.        *)
(*                                                                         *)
(* Granularity.  JavaScript runs every task to completion, and the         *)
(* continuations of an `await` whose promise settled in a task run in the  *)
(* microtask checkpoint of that same task.  One action of this model is    *)
(* therefore one task: the code from one settled I/O operation (close,     *)
(* initializeExtensions, launch, a signal, a timer, the browser's          *)
(* 'disconnected' event) up to the next `await` of an I/O operation.       *)
(* Time is counted in ticks; maxAge and the shutdown grace period are      *)
(* scaled to ticks.                                                        *)
(***************************************************************************)
EXTENDS Integers, FiniteSets, Sequences, TLC

\* ---- bounds of the model ----
NumRequests == 1
NumCrawls == 2
MaxBrowsers == 2
MaxCalls == 3
MaxTime == 3
\* the longest string given to a function of parser.js
MaxLen == 2

\* ---- program constants (scaled) ----
\* config.browser.maxRequests
MaxRequests == 2
\* config.browser.maxAge, in ticks
MaxAge == 1
\* the delay of the forceExit timer of gracefulShutdown, in ticks
Grace == 1

Startup == 0
Requests == 1..NumRequests
\* the POST /crawl requests whose pipeline is followed step by step
Crawls == 1..NumCrawls
Callers == {Startup} \cup Requests \cup Crawls
Browsers == 1..MaxBrowsers
\* the null reference
Null == 0
\* `Infinity` of getBrowser: larger than every age the clock can produce
Infinity == MaxTime + Grace + MaxAge + 1

VARIABLES
  globalBrowser,      \* browser.js: let globalBrowser (Null or a browser)
  browserLaunchTime,  \* browser.js: let browserLaunchTime (Null or a time)
  requestCount,       \* browser.js: let requestCount
  now,                \* Date.now()
  live,               \* per browser: "none" (not launched), "live", "dead"
  closeReq,           \* browsers on which close() has been called
  nextId,             \* number of browsers launched so far
  pc,                 \* per caller: position in getBrowser / initBrowser
  target,             \* per caller: the browser whose close() it awaits
  closeOk,            \* per caller: the awaited close() resolved (not threw)
  ret,                \* per caller: value returned by its getBrowser() call
  fresh,              \* per caller: no launch has resolved since its call began
  late,               \* per caller: its call began after shutdown's teardown
  why,                \* per caller: what its call found: "none", "reuse", "null", "count", "age"
  calls,              \* number of getBrowser() calls made so far
  served,             \* per browser: getBrowser() calls that returned it
  isShuttingDown,     \* server.js: let isShuttingDown
  sdpc,               \* gracefulShutdown: "idle", "closing", "exited"
  sdTarget,           \* the browser shutdownBrowser() closes for gracefulShutdown
  signalTime,         \* time of the first shutdown signal
  sdCloses,           \* close() calls made on behalf of gracefulShutdown
  ignored,            \* a shutdown signal has been ignored
  apipc,              \* a direct caller of shutdownBrowser(): "idle", "closing"
  apiTarget,          \* the browser that direct call closes
  apiLast,            \* what the last direct call found: "none", "browser", "nothing", "repeat" (nothing, after an earlier call found a browser)
  variant,            \* the server.js that runs: "detached" (fire-and-forget) or "sync"
  BUNDLE,             \* autoconsent.js: let BUNDLE (Null, or the n-th script built or loaded)
  call,               \* the parser.js call or GET /health request that is followed (see NoCall)
  run                 \* per POST /crawl request: its handling (see NoRun); <<>> before the first one

mgr == <<globalBrowser, browserLaunchTime, requestCount>>
env == <<now, live, closeReq, nextId>>
callerVars == <<pc, target, closeOk, ret, fresh, late, why, calls, served>>
sdVars == <<isShuttingDown, sdpc, sdTarget, signalTime, sdCloses, ignored>>
apiVars == <<apipc, apiTarget, apiLast>>
crawlVars == <<variant, BUNDLE, call, run>>
vars == <<mgr, env, callerVars, sdVars, apiVars, crawlVars>>

\* gracefulShutdown: process.exit(0) has been called
exited == sdpc = "exited"

\* getBrowser: const browserAge = browserLaunchTime ? now - browserLaunchTime : Infinity
BrowserAge == IF browserLaunchTime # Null THEN now - browserLaunchTime ELSE Infinity

NeedRestart_NoCount ==
  \/ globalBrowser = Null
  \/ BrowserAge > MaxAge
  \/ requestCount > MaxRequests

NeedRestart_Always == TRUE

\* getBrowser: the condition of `if (!globalBrowser || browserAge > maxAge || requestCount >= maxRequests)`
NeedRestart ==
  \/ globalBrowser = Null
  \/ BrowserAge > MaxAge
  \/ requestCount >= MaxRequests

\* no request body has been received
NoBody == [url |-> "none", callback_url |-> "none", test |-> "none"]
\* no response has been sent
NoResp == [status |-> 0, text |-> "none"]

\* the handling of a request that has not been received
NoRun ==
  [body |-> NoBody,        \* request.body of its POST /crawl
   resp |-> NoResp,        \* the response sent to it
   replies |-> 0,          \* number of responses sent to it
   stage |-> "idle",       \* the operation its pipeline awaits
   page |-> "none",        \* its `page`: "none", "open", "closed"
   failedAt |-> "none",    \* the step at which its pipeline failed ("none": it has not)
   article |-> "none",     \* what the parser returned: "none" (not run), "null", "article"
   posts |-> 0,            \* fetch(callback_url) calls made
   logged |-> FALSE,       \* the result was printed as test-mode output
   delivery |-> "none",    \* how the callback POST settled
   closeTried |-> FALSE,   \* page.close() has been called
   blocker |-> FALSE,      \* synchronous handler: its `blocker` has been assigned
   settled |-> "none"]     \* how the promise of its handling settled: "none", "resolved", "rejected"

\* no parser.js call and no GET /health request is followed
NoCall == [fn |-> "none"]

\* no POST /crawl request has been received yet
NoCrawls == run = <<>>

\* the handling of request p
RunOf(p) == IF run = <<>> THEN NoRun ELSE run[p]

\* the handling of request p becomes r
Put(p, r) == run' = [q \in Crawls |-> IF q = p THEN r ELSE RunOf(q)]

DisconnectedHandler_Keep == globalBrowser

\* initBrowser: globalBrowser.on('disconnected', () => { globalBrowser = null })
\* the value the handler leaves in globalBrowser
DisconnectedHandler == Null

\* the state after module load, apart from the call that is followed
Loaded ==
  /\ globalBrowser = Null
  /\ browserLaunchTime = Null
  /\ requestCount = 0
  /\ now = 1
  /\ live = [b \in Browsers |-> "none"]
  /\ closeReq = {}
  /\ nextId = 0
  \* initializeOnStartup() has run initBrowser up to `await initializeExtensions()`,
  \* unless NODE_ENV is 'test' ("off": it does not run, or it is over)
  /\ \E s \in {"extensions", "off"} :
       pc = [p \in Callers |-> IF p = Startup THEN s ELSE "idle"]
  /\ target = [p \in Callers |-> Null]
  /\ closeOk = [p \in Callers |-> FALSE]
  /\ ret = [p \in Callers |-> Null]
  /\ fresh = [p \in Callers |-> FALSE]
  /\ late = [p \in Callers |-> FALSE]
  /\ why = [p \in Callers |-> "none"]
  /\ calls = 0
  /\ served = [b \in Browsers |-> 0]
  /\ isShuttingDown = FALSE
  /\ sdpc = "idle"
  /\ sdTarget = Null
  /\ signalTime = Null
  /\ sdCloses = 0
  /\ ignored = FALSE
  /\ apipc = "idle"
  /\ apiTarget = Null
  /\ apiLast = "none"
  /\ variant = "detached"
  /\ BUNDLE = Null
  /\ NoCrawls

\* the state after module load
Init == Loaded /\ call = NoCall

\* the browser that gracefulShutdown closed is gone
TornDownByShutdown == sdTarget # Null /\ live[sdTarget] = "dead"

CountAfterLaunch_Keep == requestCount

\* initBrowser: requestCount = 0 (after the launch resolved)
CountAfterLaunch == 0

CountAfterReturn_Twice(c) == c + 2

\* getBrowser: requestCount++ (before `return globalBrowser`)
CountAfterReturn(c) == c + 1

CountAfterFailedLaunch_Counted(c) == c + 1

\* getBrowser: `await initBrowser()` throws, `requestCount++` is not reached
CountAfterFailedLaunch(c) == c

\* getBrowser, no restart needed: requestCount++; return globalBrowser
\* (no await is reached: the call runs to completion in one task)
GetBrowserReuse(p) ==
  /\ ~exited
  /\ pc[p] = "idle"
  /\ calls < MaxCalls
  /\ calls' = calls + 1
  /\ ~NeedRestart
  /\ requestCount' = CountAfterReturn(requestCount)
  /\ ret' = [ret EXCEPT ![p] = globalBrowser]
  /\ served' = [served EXCEPT ![globalBrowser] = @ + 1]
  /\ pc' = [pc EXCEPT ![p] = "done"]
  /\ late' = [late EXCEPT ![p] = TornDownByShutdown]
  /\ why' = [why EXCEPT ![p] = "reuse"]
  /\ UNCHANGED <<globalBrowser, browserLaunchTime, env, target, closeOk, fresh,
                 sdVars, apiVars>>
  /\ UNCHANGED <<variant, BUNDLE, call>>

\* getBrowser, restart needed: await initBrowser(), which runs up to
\* `await globalBrowser.close()` or, without a browser, up to
\* `await initializeExtensions()`
GetBrowserRestart(p) ==
  /\ ~exited
  /\ pc[p] = "idle"
  /\ calls < MaxCalls
  /\ calls' = calls + 1
  /\ NeedRestart
  /\ IF globalBrowser # Null
       THEN /\ closeReq' = closeReq \cup {globalBrowser}
            /\ pc' = [pc EXCEPT ![p] = "closing"]
       ELSE /\ closeReq' = closeReq
            /\ pc' = [pc EXCEPT ![p] = "extensions"]
  /\ target' = [target EXCEPT ![p] = globalBrowser]
  /\ fresh' = [fresh EXCEPT ![p] = TRUE]
  /\ late' = [late EXCEPT ![p] = TornDownByShutdown]
  /\ why' = [why EXCEPT ![p] = IF globalBrowser = Null THEN "null"
                             ELSE IF requestCount >= MaxRequests THEN "count" ELSE "age"]
  /\ UNCHANGED <<mgr, now, live, nextId, closeOk, ret, served, sdVars, apiVars>>
  /\ UNCHANGED <<variant, BUNDLE, call>>

\* initBrowser: `await globalBrowser.close()` settles; it resolves only once
\* the browser is gone, it may throw at any time (the error is logged);
\* initBrowser goes on to `await initializeExtensions()`
CloseSettle(p) ==
  /\ ~exited
  /\ pc[p] = "closing"
  /\ \E ok \in BOOLEAN :
       /\ ok => live[target[p]] = "dead"
       /\ closeOk' = [closeOk EXCEPT ![p] = ok]
  /\ pc' = [pc EXCEPT ![p] = "extensions"]
  /\ UNCHANGED <<mgr, env, target, ret, fresh, late, why, calls, served, sdVars, apiVars>>
  /\ UNCHANGED crawlVars

\* initBrowser: `await initializeExtensions()` settles (a failure is logged
\* and the launch goes on without extensions); puppeteer.launch() is called
ExtensionsSettle(p) ==
  /\ ~exited
  /\ pc[p] = "extensions"
  /\ pc' = [pc EXCEPT ![p] = "launching"]
  /\ UNCHANGED <<mgr, env, target, closeOk, ret, fresh, late, why, calls, served,
                 sdVars, apiVars>>
  /\ UNCHANGED crawlVars

\* initBrowser: puppeteer.launch() resolves: globalBrowser = the new browser,
\* browserLaunchTime = Date.now(), requestCount = 0, the 'disconnected'
\* handler is registered; then, in getBrowser, requestCount++ and
\* return globalBrowser (initializeOnStartup only logs and is over: "off")
LaunchResolve(p) ==
  /\ ~exited
  /\ pc[p] = "launching"
  /\ nextId < MaxBrowsers
  /\ LET b == nextId + 1 IN
       /\ nextId' = b
       /\ live' = [live EXCEPT ![b] = "live"]
       /\ globalBrowser' = b
       /\ browserLaunchTime' = now
       /\ IF p = Startup
            THEN /\ requestCount' = CountAfterLaunch
                 /\ UNCHANGED <<ret, served>>
            ELSE /\ requestCount' = CountAfterReturn(CountAfterLaunch)
                 /\ ret' = [ret EXCEPT ![p] = b]
                 /\ served' = [served EXCEPT ![b] = @ + 1]
  /\ pc' = [pc EXCEPT ![p] = IF p = Startup THEN "off" ELSE "done"]
  /\ fresh' = [q \in Callers |-> FALSE]
  /\ UNCHANGED <<now, closeReq, target, closeOk, late, why, calls, sdVars, apiVars>>
  /\ UNCHANGED crawlVars

\* initBrowser: puppeteer.launch() throws: initBrowser and getBrowser reject
\* (initializeOnStartup catches and logs)
LaunchReject(p) ==
  /\ ~exited
  /\ pc[p] = "launching"
  /\ pc' = [pc EXCEPT ![p] = IF p = Startup THEN "off" ELSE "failed"]
  /\ requestCount' = IF p = Startup THEN requestCount ELSE CountAfterFailedLaunch(requestCount)
  /\ UNCHANGED <<globalBrowser, browserLaunchTime, env, target, closeOk, ret, fresh,
                 late, why, calls, served, sdVars, apiVars>>
  /\ UNCHANGED crawlVars

\* the request that called getBrowser() ends (processCrawlRequest returns);
\* a later request calls getBrowser() again
Finish(p) ==
  /\ ~exited
  /\ pc[p] \in {"done", "failed"}
  /\ pc' = [pc EXCEPT ![p] = "idle"]
  /\ target' = [target EXCEPT ![p] = Null]
  /\ closeOk' = [closeOk EXCEPT ![p] = FALSE]
  /\ ret' = [ret EXCEPT ![p] = Null]
  /\ fresh' = [fresh EXCEPT ![p] = FALSE]
  /\ late' = [late EXCEPT ![p] = FALSE]
  /\ why' = [why EXCEPT ![p] = "none"]
  /\ UNCHANGED <<mgr, env, calls, served, sdVars, apiVars>>
  /\ UNCHANGED crawlVars

\* the browser process goes away (it crashed, or a close() took effect) and
\* emits 'disconnected': the handler registered by initBrowser runs
BrowserDisconnected(b) ==
  /\ ~exited
  /\ live[b] = "live"
  /\ live' = [live EXCEPT ![b] = "dead"]
  /\ globalBrowser' = DisconnectedHandler
  /\ UNCHANGED <<browserLaunchTime, requestCount, now, closeReq, nextId, callerVars,
                 sdVars, apiVars>>
  /\ UNCHANGED crawlVars

ArmTimer_Never(t) == Null

\* gracefulShutdown: const forceExit = setTimeout(() => process.exit(0), 1000)
\* the due time of the timer armed at time t
ArmTimer(t) == t + Grace

\* the due time of the forceExit timer (Null: no timer is pending); the timer
\* is pending while gracefulShutdown awaits shutdownBrowser()
Deadline == IF sdpc = "closing" THEN ArmTimer(signalTime) ELSE Null

\* time passes; a due timer callback runs before time passes further
Tick ==
  /\ ~exited
  /\ IF Deadline # Null THEN now < Deadline ELSE now < MaxTime
  /\ now' = now + 1
  /\ UNCHANGED <<mgr, live, closeReq, nextId, callerVars, sdVars, apiVars>>
  /\ UNCHANGED crawlVars

IgnoreSignal_Restart == FALSE

\* gracefulShutdown: `if (isShuttingDown) { ...; return; }`
IgnoreSignal == isShuttingDown

\* a shutdown signal (SIGTERM or SIGINT) is delivered: gracefulShutdown(signal)
\* runs up to `await globalBrowser.close()` inside shutdownBrowser(); without a
\* browser nothing is awaited but settled promises, and process.exit(0) follows
\* in the same task
Signal(sig) ==
  /\ ~exited
  /\ IF IgnoreSignal
       THEN /\ ignored' = TRUE
            /\ UNCHANGED <<isShuttingDown, sdpc, sdTarget, signalTime, sdCloses, closeReq>>
       ELSE /\ isShuttingDown' = TRUE
            /\ signalTime' = now
            /\ sdTarget' = globalBrowser
            /\ UNCHANGED ignored
            /\ IF globalBrowser # Null
                 THEN /\ closeReq' = closeReq \cup {globalBrowser}
                      /\ sdCloses' = sdCloses + 1
                      /\ sdpc' = "closing"
                 ELSE /\ sdpc' = "exited"
                      /\ UNCHANGED <<closeReq, sdCloses>>
  /\ UNCHANGED <<mgr, now, live, nextId, callerVars, apiVars>>
  /\ UNCHANGED crawlVars

\* shutdownBrowser: `await globalBrowser.close()` settles (resolved or threw,
\* the error is logged); globalBrowser = null; back in gracefulShutdown:
\* clearTimeout(forceExit); process.exit(0)
ShutdownCloseSettle ==
  /\ sdpc = "closing"
  /\ \E ok \in BOOLEAN : ok => live[sdTarget] = "dead"
  /\ globalBrowser' = Null
  /\ sdpc' = "exited"
  /\ UNCHANGED <<browserLaunchTime, requestCount, env, callerVars, isShuttingDown,
                 sdTarget, signalTime, sdCloses, ignored, apiVars>>
  /\ UNCHANGED crawlVars

\* gracefulShutdown: the forceExit timer fires: process.exit(0)
ForceExit ==
  /\ sdpc = "closing"
  /\ Deadline # Null
  /\ now >= Deadline
  /\ sdpc' = "exited"
  /\ UNCHANGED <<mgr, env, callerVars, isShuttingDown, sdTarget, signalTime,
                 sdCloses, ignored, apiVars>>
  /\ UNCHANGED crawlVars

\* shutdownBrowser() called directly (it is exported): with a browser, runs up
\* to `await globalBrowser.close()`; without one it returns at once
ShutdownBrowserCall ==
  /\ ~exited
  /\ apipc = "idle"
  /\ apiTarget' = globalBrowser
  /\ IF globalBrowser # Null
       THEN /\ closeReq' = closeReq \cup {globalBrowser}
            /\ apipc' = "closing"
            /\ apiLast' = "browser"
       ELSE /\ apiLast' = IF apiLast \in {"browser", "repeat"} THEN "repeat" ELSE "nothing"
            /\ UNCHANGED <<closeReq, apipc>>
  /\ UNCHANGED <<mgr, now, live, nextId, callerVars, sdVars>>
  /\ UNCHANGED crawlVars

\* shutdownBrowser: `await globalBrowser.close()` settles; globalBrowser = null
ShutdownBrowserSettle ==
  /\ ~exited
  /\ apipc = "closing"
  /\ \E ok \in BOOLEAN : ok => live[apiTarget] = "dead"
  /\ globalBrowser' = Null
  /\ apipc' = "idle"
  /\ UNCHANGED <<browserLaunchTime, requestCount, env, callerVars, sdVars, apiTarget, apiLast>>
  /\ UNCHANGED crawlVars

\* ---------------------------------------------------------------------
\* POST /crawl and the extraction pipeline
\* ---------------------------------------------------------------------

\* JavaScript values of the fields of request.body, by kind: a missing field,
\* a number (truthy, not a string), the empty string, a non-empty string, and
\* the booleans
UrlValues == {"undefined", "number", "emptystring", "string"}
TestValues == {"undefined", "false", "true"}
Bodies == [url : UrlValues, callback_url : UrlValues, test : TestValues]

\* !v is false
Truthy(v) == v \in {"number", "string", "true"}
\* typeof v === 'string'
IsString(v) == v \in {"emptystring", "string"}

\* POST /crawl: const { url, callback_url, test = false } = request.body
TestOf(b) == IF b.test = "undefined" THEN "false" ELSE b.test

\* POST /crawl: `if (!url || typeof url !== 'string')`
BadUrl(b) == ~Truthy(b.url) \/ ~IsString(b.url)

BadCallback_TestToo(b) == ~Truthy(b.callback_url) \/ ~IsString(b.callback_url)

\* POST /crawl: `if (!test && (!callback_url || typeof callback_url !== 'string'))`
BadCallback(b) ==
  ~Truthy(TestOf(b)) /\ (~Truthy(b.callback_url) \/ ~IsString(b.callback_url))

Validate_CallbackFirst(b) ==
  IF BadCallback(b)
    THEN [status |-> 400, text |-> "callback_url is required when test is false"]
    ELSE IF BadUrl(b)
      THEN [status |-> 400, text |-> "url is required and must be a string"]
      ELSE NoResp

\* POST /crawl, input validation: the 400 response, or NoResp for a body that
\* passes; the url check comes first
Validate(b) ==
  IF BadUrl(b)
    THEN [status |-> 400, text |-> "url is required and must be a string"]
    ELSE IF BadCallback(b)
      THEN [status |-> 400, text |-> "callback_url is required when test is false"]
      ELSE NoResp

Accepted_AfterPipeline == [status |-> 200, text |-> "Article extracted successfully (test mode)"]

\* fire-and-forget POST /crawl: reply.status(202).send(...), right after
\* processCrawlRequest() has been started
Accepted == [status |-> 202, text |-> "Request accepted and processed"]

\* synchronous POST /crawl: the responses of the handler
CallbackDone == [status |-> 202, text |-> "Request accepted and processed"]
TestOk == [status |-> 200, text |-> "Article extracted successfully (test mode)"]
CallbackFailed == [status |-> 202, text |-> "Request accepted but callback failed"]
ExtractFailed == [status |-> 502, text |-> "Failed to extract article content"]
NavigateFailed == [status |-> 502, text |-> "Failed to navigate to URL"]
InternalError == [status |-> 500, text |-> "Internal server error"]

\* kinds of error.message: one that contains 'net::ERR_', puppeteer's
\* 'Navigation timeout of ... ms exceeded', and any other text
Messages == {"net::ERR_", "Navigation timeout", "other"}

\* synchronous POST /crawl, catch block:
\* `if (error.message.includes('net::ERR_') || error.message.includes('Navigation'))`
Classify(m) == IF m \in {"net::ERR_", "Navigation timeout"} THEN NavigateFailed ELSE InternalError

\* the request's pipeline is over
Terminated(p) == pc[p] = "failed" \/ RunOf(p).stage = "end"
\* the request was accepted and its pipeline is not over
InFlight(p) == RunOf(p).body # NoBody /\ Validate(RunOf(p).body) = NoResp /\ ~Terminated(p)
\* the tab the request created exists
TabOpen(p) ==
  /\ RunOf(p).page = "open"
  /\ variant = "detached" => live[ret[p]] = "live"

\* send response r
Respond(rec, r) == [rec EXCEPT !.resp = r, !.replies = @ + 1]

\* a response that only the synchronous handler sends at this point
RespondIfSync(rec, r) == IF variant = "sync" THEN Respond(rec, r) ELSE rec

ClosesPage_Never(pg) == FALSE

\* finally: `if (page) { await page.close() }`
ClosesPage(pg) == pg # "none"

ClosesBrowser_Always == TRUE

\* finally of processCrawlRequest: "keep browser alive", the browser is not
\* closed (the synchronous handler closes the browser it launched itself,
\* which is not the manager's)
ClosesBrowser == FALSE

SettledAs_Rethrown(failed) == IF failed THEN "rejected" ELSE "resolved"

\* how the promise of processCrawlRequest (of the synchronous handler)
\* settles when the function is left: every await of the body is inside
\* try/catch, the catch block only logs (or answers), and the awaits of the
\* finally block are inside a try/catch of their own
SettledAs(failed) == "resolved"

\* the run is over
Over(rec, failed) == [rec EXCEPT !.stage = "end", !.settled = SettledAs(failed)]

\* what a run keeps of its outcome is dropped when it is over
Forget(rec) ==
  [rec EXCEPT !.failedAt = "none", !.article = "none", !.posts = 0, !.logged = FALSE,
              !.delivery = "none", !.blocker = FALSE]

\* finally of the synchronous handler, up to its first await:
\* `if (blocker && page) await blocker.disableBlockingInPage(page)`,
\* `if (page) await page.close()`, `if (browser) await browser.close()`
SyncFinally(p, rec) ==
  IF rec.blocker /\ rec.page # "none"
    THEN /\ Put(p, [rec EXCEPT !.stage = "unblock"])
         /\ UNCHANGED closeReq
    ELSE IF ClosesPage(rec.page)
      THEN /\ Put(p, [rec EXCEPT !.stage = "cleanup", !.closeTried = TRUE])
           /\ UNCHANGED closeReq
      ELSE IF ret[p] # Null
        THEN /\ Put(p, [rec EXCEPT !.stage = "shutdown"])
             /\ closeReq' = closeReq \cup {ret[p]}
        ELSE /\ Put(p, Over(rec, rec.failedAt # "none"))
             /\ UNCHANGED closeReq

\* the try block is left (by its end, a return or the catch block) with the
\* handling of the request as rec, and the finally block runs up to its first
\* await: in processCrawlRequest `await page.close()`; without a page it has
\* nothing to await and the pipeline is over
Finally(p, rec) ==
  IF variant = "sync"
    THEN SyncFinally(p, rec)
    ELSE /\ Put(p, IF ClosesPage(rec.page)
                      THEN [rec EXCEPT !.stage = "cleanup", !.closeTried = TRUE]
                      ELSE Over(rec, rec.failedAt # "none"))
         /\ IF ClosesBrowser /\ ret[p] # Null
              THEN closeReq' = closeReq \cup {ret[p]}
              ELSE closeReq' = closeReq

\* an awaited operation threw error message m at step `where`: the catch
\* block logs it (the synchronous handler answers by the message), then finally
Throw(p, where, m) ==
  Finally(p, RespondIfSync([RunOf(p) EXCEPT !.failedAt = where], Classify(m)))

\* fire-and-forget POST /crawl: validation; for a valid body
\* processCrawlRequest() starts and runs into getBrowser() (up to its first
\* await), and the handler answers 202
PostCrawl(p, b) ==
  /\ ~exited
  /\ variant = "detached"
  /\ RunOf(p).body = NoBody
  /\ pc[p] = "idle"
  /\ IF Validate(b) # NoResp
       THEN /\ Put(p, Respond([RunOf(p) EXCEPT !.body = b], Validate(b)))
            /\ UNCHANGED <<mgr, env, callerVars, sdVars, apiVars, variant, BUNDLE, call>>
       ELSE /\ Put(p, Respond([RunOf(p) EXCEPT !.body = b], Accepted))
            /\ GetBrowserReuse(p) \/ GetBrowserRestart(p)

\* synchronous POST /crawl: validation; for a valid body the handler runs up
\* to `await puppeteer.launch()`
SyncPostCrawl(p, b) ==
  /\ variant = "sync"
  /\ RunOf(p).body = NoBody
  /\ IF Validate(b) # NoResp
       THEN Put(p, Respond([RunOf(p) EXCEPT !.body = b], Validate(b)))
       ELSE Put(p, [RunOf(p) EXCEPT !.body = b, !.stage = "launch"])
  /\ UNCHANGED <<mgr, env, callerVars, sdVars, apiVars, variant, BUNDLE, call>>

\* synchronous POST /crawl: `browser = await puppeteer.launch()` settles (the
\* handler's `browser` is kept in ret); browser.newPage() is called
SyncLaunchSettle(p) ==
  /\ RunOf(p).stage = "launch"
  /\ \/ /\ nextId < MaxBrowsers
        /\ LET b == nextId + 1 IN
             /\ nextId' = b
             /\ live' = [live EXCEPT ![b] = "live"]
             /\ ret' = [ret EXCEPT ![p] = b]
        /\ Put(p, [RunOf(p) EXCEPT !.stage = "page"])
        /\ UNCHANGED closeReq
     \/ /\ Throw(p, "launch", "other")
        /\ UNCHANGED <<nextId, live, ret>>
  /\ UNCHANGED <<mgr, now, pc, target, closeOk, fresh, late, why, calls, served,
                 sdVars, apiVars, variant, BUNDLE, call>>

\* getBrowser() has returned and `await browser.newPage()` of createPage
\* settles; the adblocker set-up is started
NewPageSettle(p) ==
  /\ ~exited
  /\ RunOf(p).stage = (IF variant = "sync" THEN "page" ELSE "idle")
  /\ variant = "detached" => pc[p] = "done"
  /\ \/ /\ variant = "detached" => live[ret[p]] = "live"
        /\ Put(p, [RunOf(p) EXCEPT !.page = "open", !.stage = "sanitize"])
        /\ UNCHANGED closeReq
     \/ Throw(p, "page", "other")
  /\ UNCHANGED <<mgr, now, live, nextId, callerVars, sdVars, apiVars, variant, BUNDLE, call>>

InjectAutoConsentScript_Skipped == "goto"

\* injectAutoConsentScript(page), up to its first pending await: of the build
\* of the script when `BUNDLE === null`, else of page.evaluateOnNewDocument()
InjectAutoConsentScript == IF BUNDLE # Null THEN "consent" ELSE "bundle"

\* `blocker = await PuppeteerBlocker.fromPrebuiltAdsAndTracking(fetch)` and
\* `await blocker.enableBlockingInPage(page)` settle; an error of either is
\* thrown to the catch block (of the first, with `blocker` unassigned);
\* otherwise injectAutoConsentScript(page) is called: getAutoConsentScript()
\* returns the cached BUNDLE and page.evaluateOnNewDocument() is called, or,
\* with `BUNDLE === null`, it starts to build (or load) the script
SanitizeSettle(p) ==
  /\ ~exited
  /\ RunOf(p).stage = "sanitize"
  /\ \/ /\ TabOpen(p)
        /\ Put(p, [RunOf(p) EXCEPT !.stage = InjectAutoConsentScript,
                                   !.blocker = (variant = "sync")])
        /\ UNCHANGED closeReq
     \/ \E got \in (IF variant = "sync" THEN BOOLEAN ELSE {FALSE}) :
          Finally(p, RespondIfSync([RunOf(p) EXCEPT !.failedAt = "sanitize", !.blocker = got],
                                   Classify("other")))
  /\ UNCHANGED <<mgr, now, live, nextId, callerVars, sdVars, apiVars, variant, BUNDLE, call>>

\* getAutoConsentScript: the `await` of the build (esbuild's build(), or
\* import('fs') followed by readFileSync) settles: BUNDLE is assigned and
\* returned, and injectAutoConsentScript calls page.evaluateOnNewDocument();
\* or it threw: injectAutoConsentScript logs the error and page.goto(url)
\* is called
BundleSettle(p) ==
  /\ ~exited
  /\ RunOf(p).stage = "bundle"
  /\ \/ /\ BUNDLE' = BUNDLE + 1
        /\ Put(p, [RunOf(p) EXCEPT !.stage = "consent"])
     \/ /\ UNCHANGED BUNDLE
        /\ Put(p, [RunOf(p) EXCEPT !.stage = "goto"])
  /\ UNCHANGED <<mgr, env, callerVars, sdVars, apiVars, variant, call>>

\* injectAutoConsentScript: `await page.evaluateOnNewDocument()` settles; an
\* error is logged and not rethrown; page.goto(url) is called
ConsentSettle(p) ==
  /\ ~exited
  /\ RunOf(p).stage = "consent"
  /\ \E ok \in BOOLEAN : Put(p, [RunOf(p) EXCEPT !.stage = "goto"])
  /\ UNCHANGED <<mgr, env, callerVars, sdVars, apiVars, variant, BUNDLE, call>>

\* `await page.goto(url)` settles: the page loaded, the navigation failed
\* with some error message, or the navigation timeout passed;
\* page.content() is called
GotoSettle(p) ==
  /\ ~exited
  /\ RunOf(p).stage = "goto"
  /\ \/ /\ TabOpen(p)
        /\ Put(p, [RunOf(p) EXCEPT !.stage = "content"])
        /\ UNCHANGED closeReq
     \/ \E m \in Messages :
          Throw(p, IF m = "Navigation timeout" THEN "timeout" ELSE "goto", m)
  /\ UNCHANGED <<mgr, now, live, nextId, callerVars, sdVars, apiVars, variant, BUNDLE, call>>

ExtractionFailed_Ignored(a) == FALSE

\* `if (!article)`: the parser returned null
ExtractionFailed(a) == a = "null"

\* parser.js, parseArticle: null unless some engine returned a result
ParseArticle(outs) == IF \A i \in DOMAIN outs : outs[i] = "null" THEN "null" ELSE "article"

\* `if (test) { log } else { fetch(callback_url) }`
Delivers(b) == ~Truthy(TestOf(b))

\* `await page.content()` settles; the HTML is parsed and the article
\* extracted (synchronously; the markdown converters run on settled promises);
\* without an article the pipeline stops; in test mode the result is printed,
\* otherwise fetch(callback_url) is called
ContentSettle(p) ==
  /\ ~exited
  /\ RunOf(p).stage = "content"
  /\ \/ /\ TabOpen(p)
        /\ \E outs \in [1..2 -> {"null", "article"}] :
             LET rec == [RunOf(p) EXCEPT !.article = ParseArticle(outs)] IN
               IF ExtractionFailed(ParseArticle(outs))
                 THEN Finally(p, RespondIfSync([rec EXCEPT !.failedAt = "extract"], ExtractFailed))
                 ELSE IF Delivers(RunOf(p).body)
                   THEN /\ Put(p, [rec EXCEPT !.posts = @ + 1, !.stage = "callback"])
                        /\ UNCHANGED closeReq
                   ELSE Finally(p, RespondIfSync([rec EXCEPT !.logged = TRUE], TestOk))
     \/ Throw(p, "content", "other")
  /\ UNCHANGED <<mgr, now, live, nextId, callerVars, sdVars, apiVars, variant, BUNDLE, call>>

Retries_OnFailure(d) == d # "ok"

\* the callback POST is made once: a failure is logged only
Retries(d) == FALSE

Errored_OnDelivery(d) == IF d = "ok" THEN "none" ELSE "callback"

\* the inner try/catch around fetch(callback_url): no delivery outcome
\* reaches the outer catch block
Errored(d) == "none"

\* `await fetch(callback_url)` settles: a 2xx response, another response, or
\* a network error; the outcome is logged (the synchronous handler answers
\* 202), then finally
CallbackSettle(p) ==
  /\ ~exited
  /\ RunOf(p).stage = "callback"
  /\ \E d \in {"ok", "non2xx", "neterr"} :
       LET rec == [RunOf(p) EXCEPT !.delivery = d, !.failedAt = Errored(d)] IN
         IF Retries(d)
           THEN /\ Put(p, [rec EXCEPT !.posts = @ + 1])
                /\ UNCHANGED closeReq
           ELSE Finally(p, RespondIfSync(rec, IF Errored(d) # "none" THEN InternalError
                                              ELSE IF d = "neterr" THEN CallbackFailed
                                              ELSE CallbackDone))
  /\ UNCHANGED <<mgr, now, live, nextId, callerVars, sdVars, apiVars, variant, BUNDLE, call>>

\* finally: `await page.close()` settles: the tab is closed, or close()
\* threw (the error is logged) and the tab is as it was; the run is over,
\* but for the synchronous handler, which after a close that resolved calls
\* browser.close()
PageCloseSettle(p) ==
  /\ ~exited
  /\ RunOf(p).stage = "cleanup"
  /\ \E ok \in BOOLEAN :
       LET rec == [RunOf(p) EXCEPT !.page = IF ok /\ @ = "open" THEN "closed" ELSE @] IN
         IF variant = "sync" /\ ok /\ ret[p] # Null
           THEN /\ Put(p, [rec EXCEPT !.stage = "shutdown"])
                /\ closeReq' = closeReq \cup {ret[p]}
           ELSE /\ Put(p, Forget(Over(rec, ~ok \/ rec.failedAt # "none")))
                /\ UNCHANGED closeReq
  /\ UNCHANGED <<mgr, now, live, nextId, callerVars, sdVars, apiVars, variant, BUNDLE, call>>

\* finally of the synchronous handler: `await blocker.disableBlockingInPage(page)`
\* settles: page.close() is called, or it threw: the catch block of the
\* finally block logs the error and the handler is over
UnblockSettle(p) ==
  /\ variant = "sync"
  /\ RunOf(p).stage = "unblock"
  /\ \E ok \in BOOLEAN :
       IF ok
         THEN Put(p, [RunOf(p) EXCEPT !.stage = "cleanup", !.closeTried = TRUE])
         ELSE Put(p, Forget(Over(RunOf(p), TRUE)))
  /\ UNCHANGED <<mgr, env, callerVars, sdVars, apiVars, variant, BUNDLE, call>>

\* finally of the synchronous handler: `await browser.close()` settles (it
\* resolves only once the browser is gone; an error is logged); the handler
\* is over
BrowserCloseSettle(p) ==
  /\ variant = "sync"
  /\ RunOf(p).stage = "shutdown"
  /\ \E ok \in BOOLEAN :
       /\ ok => live[ret[p]] = "dead"
       /\ Put(p, Forget(Over(RunOf(p), ~ok \/ RunOf(p).failedAt # "none")))
  /\ UNCHANGED <<mgr, env, callerVars, sdVars, apiVars, variant, BUNDLE, call>>


Next ==
  \/ \E p \in Requests : GetBrowserReuse(p) /\ UNCHANGED run
  \/ \E p \in Requests : GetBrowserRestart(p) /\ UNCHANGED run
  \/ \E p \in Callers : CloseSettle(p)
  \/ \E p \in Callers : ExtensionsSettle(p)
  \/ \E p \in Callers : LaunchResolve(p)
  \/ \E p \in Callers : LaunchReject(p)
  \/ \E p \in Requests : Finish(p)
  \/ \E b \in Browsers : BrowserDisconnected(b)
  \/ Tick
  \/ \E sig \in {"SIGTERM", "SIGINT"} : Signal(sig)
  \/ ShutdownCloseSettle
  \/ ForceExit

\* the server process
Spec == Init /\ [][Next]_vars

\* time stands still: neither age-based rotation nor the forceExit timer occurs
NextApi ==
  \/ \E p \in Requests : GetBrowserReuse(p) /\ UNCHANGED run
  \/ \E p \in Requests : GetBrowserRestart(p) /\ UNCHANGED run
  \/ \E p \in Callers : CloseSettle(p)
  \/ \E p \in Callers : ExtensionsSettle(p)
  \/ \E p \in Callers : LaunchResolve(p)
  \/ \E p \in Callers : LaunchReject(p)
  \/ \E p \in Requests : Finish(p)
  \/ \E b \in Browsers : BrowserDisconnected(b)
  \/ \E sig \in {"SIGTERM", "SIGINT"} : Signal(sig)
  \/ ShutdownCloseSettle
  \/ ShutdownBrowserCall
  \/ ShutdownBrowserSettle

\* the browser module driven by its callers and by direct shutdownBrowser() calls
ApiSpec == Init /\ [][NextApi]_vars

\* the body of the requests whose pipelines run side by side: a url and a
\* callback_url, not in test mode
CrawlBodies ==
  {b \in Bodies : b.url = "string" /\ b.callback_url = "string" /\ b.test = "false"}

\* the startup browser is running, it has been returned to c getBrowser()
\* calls, and no request is in progress
Served(c) ==
  /\ globalBrowser = 1
  /\ browserLaunchTime = 1
  /\ requestCount = c
  /\ now = 1
  /\ live = [b \in Browsers |-> IF b = 1 THEN "live" ELSE "none"]
  /\ closeReq = {}
  /\ nextId = 1
  /\ pc = [p \in Callers |-> IF p = Startup THEN "off" ELSE "idle"]
  /\ target = [p \in Callers |-> Null]
  /\ closeOk = [p \in Callers |-> FALSE]
  /\ ret = [p \in Callers |-> Null]
  /\ fresh = [p \in Callers |-> FALSE]
  /\ late = [p \in Callers |-> FALSE]
  /\ why = [p \in Callers |-> "none"]
  /\ calls = c
  /\ served = [b \in Browsers |-> IF b = 1 THEN c ELSE 0]
  /\ isShuttingDown = FALSE
  /\ sdpc = "idle"
  /\ sdTarget = Null
  /\ signalTime = Null
  /\ sdCloses = 0
  /\ ignored = FALSE
  /\ apipc = "idle"
  /\ apiTarget = Null
  /\ apiLast = "none"
  /\ variant = "detached"
  /\ BUNDLE = 1
  /\ NoCrawls

\* the server between two requests, no call followed
Warm(c) == Served(c) /\ call = NoCall

\* the server after c requests, c not yet at the rotation threshold
CrawlInit == \E c \in 1..MaxRequests : Warm(c)

\* the requests are numbered in the order in which they are received
Arrives(p) == \A q \in Crawls : q < p => RunOf(q).body # NoBody

NextCrawl ==
  \/ \E p \in Crawls, b \in CrawlBodies : Arrives(p) /\ PostCrawl(p, b)
  \/ \E p \in Callers : CloseSettle(p)
  \/ \E p \in Callers : ExtensionsSettle(p)
  \/ \E p \in Callers : LaunchResolve(p)
  \/ \E p \in Callers : LaunchReject(p)
  \/ \E b \in Browsers : BrowserDisconnected(b)
  \/ \E p \in Crawls : NewPageSettle(p)
  \/ \E p \in Crawls : SanitizeSettle(p)
  \/ \E p \in Crawls : ConsentSettle(p)
  \/ \E p \in Crawls : GotoSettle(p)
  \/ \E p \in Crawls : ContentSettle(p)
  \/ \E p \in Crawls : CallbackSettle(p)
  \/ \E p \in Crawls : PageCloseSettle(p)

\* concurrent POST /crawl requests of the fire-and-forget server, each
\* followed through its pipeline (no clock, no shutdown; the consent script
\* is cached)
CrawlSpec == CrawlInit /\ [][NextCrawl]_vars

NextCold ==
  \/ NextCrawl
  \/ \E p \in Crawls : BundleSettle(p)
  \/ Tick

\* the fire-and-forget server from its start, with the clock: the first
\* requests arrive while nothing is cached yet
ColdSpec == Init /\ [][NextCold]_vars

\* the synchronous server.js after start: it has no browser manager
SyncInit ==
  /\ globalBrowser = Null
  /\ browserLaunchTime = Null
  /\ requestCount = 0
  /\ now = 1
  /\ live = [b \in Browsers |-> "none"]
  /\ closeReq = {}
  /\ nextId = 0
  /\ pc = [p \in Callers |-> IF p = Startup THEN "off" ELSE "idle"]
  /\ target = [p \in Callers |-> Null]
  /\ closeOk = [p \in Callers |-> FALSE]
  /\ ret = [p \in Callers |-> Null]
  /\ fresh = [p \in Callers |-> FALSE]
  /\ late = [p \in Callers |-> FALSE]
  /\ why = [p \in Callers |-> "none"]
  /\ calls = 0
  /\ served = [b \in Browsers |-> 0]
  /\ isShuttingDown = FALSE
  /\ sdpc = "idle"
  /\ sdTarget = Null
  /\ signalTime = Null
  /\ sdCloses = 0
  /\ ignored = FALSE
  /\ apipc = "idle"
  /\ apiTarget = Null
  /\ apiLast = "none"
  /\ variant = "sync"
  /\ BUNDLE = Null
  /\ NoCrawls
  /\ call = NoCall

\* either server.js
PostInit == Init \/ CrawlInit \/ SyncInit

\* the request that PostSpec follows
One == {1}

NextPost ==
  \/ \E p \in One, b \in Bodies : PostCrawl(p, b)
  \/ \E p \in One, b \in Bodies : SyncPostCrawl(p, b)
  \/ \E p \in One : SyncLaunchSettle(p)
  \/ \E p \in Callers : CloseSettle(p)
  \/ \E p \in Callers : ExtensionsSettle(p)
  \/ \E p \in Callers : LaunchResolve(p)
  \/ \E p \in Callers : LaunchReject(p)
  \/ \E b \in Browsers : BrowserDisconnected(b)
  \/ \E p \in One : NewPageSettle(p)
  \/ \E p \in One : SanitizeSettle(p)
  \/ \E p \in One : BundleSettle(p)
  \/ \E p \in One : ConsentSettle(p)
  \/ \E p \in One : GotoSettle(p)
  \/ \E p \in One : ContentSettle(p)
  \/ \E p \in One : CallbackSettle(p)
  \/ \E p \in One : PageCloseSettle(p)
  \/ \E p \in One : UnblockSettle(p)
  \/ \E p \in One : BrowserCloseSettle(p)

\* one POST /crawl request with any body, handled by either server.js
PostSpec == PostInit /\ [][NextPost]_vars

NextLive ==
  \/ \E p \in One, b \in Bodies : PostCrawl(p, b)
  \/ \E p \in Callers : CloseSettle(p)
  \/ \E p \in Callers : ExtensionsSettle(p)
  \/ \E p \in Callers : LaunchResolve(p)
  \/ \E p \in Callers : LaunchReject(p)
  \/ \E b \in Browsers : BrowserDisconnected(b)
  \/ \E p \in One : NewPageSettle(p)
  \/ \E p \in One : SanitizeSettle(p)
  \/ \E p \in One : BundleSettle(p)
  \/ \E p \in One : ConsentSettle(p)
  \/ \E p \in One : GotoSettle(p)
  \/ \E p \in One : ContentSettle(p)
  \/ \E p \in One : CallbackSettle(p)
  \/ \E p \in One : PageCloseSettle(p)

\* the awaited operations that settle within a bounded time: the browser's
\* own operations (puppeteer's launch timeout and protocol timeout, the
\* navigation timeout set by createPage) and the local build of the consent
\* script, and the download of the filter lists when its server answers;
\* fetch(callback_url) is node-fetch without timeout or signal: it settles
\* only if the callback server answers or the connection breaks
Bounded ==
  /\ WF_vars(\E p \in Callers : CloseSettle(p))
  /\ WF_vars(\E p \in Callers : ExtensionsSettle(p))
  /\ WF_vars(\E p \in Callers : LaunchResolve(p) \/ LaunchReject(p))
  /\ WF_vars(\E p \in One : NewPageSettle(p))
  /\ WF_vars(\E p \in One : SanitizeSettle(p))
  /\ WF_vars(\E p \in One : BundleSettle(p))
  /\ WF_vars(\E p \in One : ConsentSettle(p))
  /\ WF_vars(\E p \in One : GotoSettle(p))
  /\ WF_vars(\E p \in One : ContentSettle(p))
  /\ WF_vars(\E p \in One : PageCloseSettle(p))

\* one request of the fire-and-forget server, no shutdown, every bounded
\* operation settling
LiveSpec == (Init \/ CrawlInit) /\ [][NextLive]_vars /\ Bounded

GetBrowserStats_Counting ==
  [isInitialized |-> globalBrowser # Null,
   requestCount |-> requestCount + 1,
   ageMs |-> IF browserLaunchTime # Null THEN now - browserLaunchTime ELSE 0,
   maxAgeMs |-> MaxAge,
   maxRequests |-> MaxRequests]

\* getBrowserStats(): what it returns
GetBrowserStats ==
  [isInitialized |-> globalBrowser # Null,
   requestCount |-> requestCount,
   ageMs |-> IF browserLaunchTime # Null THEN now - browserLaunchTime ELSE 0,
   maxAgeMs |-> MaxAge,
   maxRequests |-> MaxRequests]

\* GET /health: the handler calls getBrowserStats() and answers with the
\* stats
GetHealth ==
  /\ ~exited
  /\ call' = [fn |-> "health", status |-> "ok", browser |-> GetBrowserStats]
  /\ UNCHANGED <<mgr, env, callerVars, sdVars, apiVars, variant, BUNDLE, run>>

NextHealth ==
  \/ \E p \in One : GetBrowserReuse(p) /\ UNCHANGED run
  \/ \E p \in One : GetBrowserRestart(p) /\ UNCHANGED run
  \/ \E p \in Callers : CloseSettle(p)
  \/ \E p \in Callers : ExtensionsSettle(p)
  \/ \E p \in Callers : LaunchResolve(p)
  \/ \E p \in Callers : LaunchReject(p)
  \/ \E p \in One : Finish(p)
  \/ \E b \in Browsers : BrowserDisconnected(b)
  \/ Tick
  \/ GetHealth

\* the browser manager driven by the getBrowser() calls of a caller, one
\* after the other, with GET /health requests in between
HealthSpec == Init /\ [][NextHealth]_vars

\* ---------------------------------------------------------------------
\* parser.js: convertToMarkdown, normalizeLineBreaks, parseArticle,
\* parseWebpage
\* ---------------------------------------------------------------------

\* strings are sequences of characters; the characters that matter here:
\* "LT" and "GT" (the angle brackets), "SP" (a blank), "CR", "LF", "BS" (a
\* backslash), "n" and "a" (letters)
Strings(alphabet, n) == UNION {[1..k -> alphabet] : k \in 0..n}

\* \s of the regular expressions
IsSpace(c) == c \in {"SP", "CR", "LF"}

RECURSIVE TrimStart(_)
TrimStart(s) == IF s # <<>> /\ IsSpace(Head(s)) THEN TrimStart(Tail(s)) ELSE s

RECURSIVE TrimEnd(_)
TrimEnd(s) ==
  IF s # <<>> /\ IsSpace(s[Len(s)]) THEN TrimEnd(SubSeq(s, 1, Len(s) - 1)) ELSE s

\* String.prototype.trim
Trim(s) == TrimEnd(TrimStart(s))

\* the index of the first > after position 1 of s, 0 if there is none
FirstGT(s) ==
  IF \E i \in 2..Len(s) : s[i] = "GT"
    THEN CHOOSE i \in 2..Len(s) : s[i] = "GT" /\ \A j \in 2..(i - 1) : s[j] # "GT"
    ELSE 0

\* html.replace(/<[^>]*>/g, '')
RECURSIVE StripTags(_)
StripTags(s) ==
  IF s = <<>> THEN <<>>
  ELSE IF Head(s) = "LT" /\ FirstGT(s) # 0
    THEN StripTags(SubSeq(s, FirstGT(s) + 1, Len(s)))
    ELSE <<Head(s)>> \o StripTags(Tail(s))

CollapseSpace_Kept(s) == s

\* .replace(/\s+/g, ' ')
RECURSIVE CollapseSpace(_)
CollapseSpace(s) ==
  IF s = <<>> THEN <<>>
  ELSE IF IsSpace(Head(s))
    THEN <<"SP">> \o CollapseSpace(TrimStart(s))
    ELSE <<Head(s)>> \o CollapseSpace(Tail(s))

\* convertToMarkdown, step 3: the plain-text fallback
PlainText(html) == Trim(CollapseSpace(StripTags(html)))

\* text.replace of every occurrence of the two characters c1 c2 by LF
RECURSIVE ReplacePair(_, _, _)
ReplacePair(s, c1, c2) ==
  IF Len(s) < 2 THEN s
  ELSE IF s[1] = c1 /\ s[2] = c2
    THEN <<"LF">> \o ReplacePair(SubSeq(s, 3, Len(s)), c1, c2)
    ELSE <<Head(s)>> \o ReplacePair(Tail(s), c1, c2)

\* text.replace(/\r/g, '\n')
ReplaceCR(s) == [i \in 1..Len(s) |-> IF s[i] = "CR" THEN "LF" ELSE s[i]]

NormalizeLineBreaks_Identity(text) == text

\* normalizeLineBreaks: an escaped \n (a backslash and an n) becomes a
\* newline, then \r\n does, then \r does
NormalizeLineBreaks(text) == ReplaceCR(ReplacePair(ReplacePair(text, "BS", "n"), "CR", "LF"))

\* config.markdown.conversionTimeout, in ticks
Timeout == 2

\* how long a synchronous conversion (NodeHtmlMarkdown.translate,
\* turndownService.turndown) may run, in ticks
Durations == {0, Timeout, 2 * Timeout + 1}

\* what a conversion library returns for some HTML: it throws, or it returns
\* null/undefined or a string (empty, blank, or with text)
TierOutcomes ==
  {[kind |-> "throws", value |-> <<>>], [kind |-> "null", value |-> <<>>]}
    \cup {[kind |-> "string", value |-> v] : v \in {<<>>, <<"SP">>, <<"a", "LF">>}}

Accepts_Any(o) == o.kind = "string"

\* `if (markdown && markdown.trim().length > 0)`
Accepts(o) == o.kind = "string" /\ Trim(o.value) # <<>>

\* withTimeout: Promise.race of a promise that settles with o at time
\* `arrive` and of a timer armed at time `armed`: what the race settles
\* with (the promise wins when it is settled before the timer is due)
WithTimeout(o, arrive, armed) ==
  IF arrive < armed + Timeout THEN o ELSE [kind |-> "timeout", value |-> <<>>]

\* one step of convertToMarkdown, started at time t with a library whose
\* conversion takes d ticks and gives o: the conversion runs synchronously,
\* then (unless it threw, which the catch logs) withTimeout arms its timer
\* and races the settled promise against it
Tier(o, d, t) ==
  LET arrive == t + d
      armed == arrive
      got == IF o.kind = "throws" THEN o ELSE WithTimeout(o, arrive, armed)
  IN [got |-> got,
      arrive |-> arrive,
      due |-> IF o.kind = "throws" THEN Null ELSE armed + Timeout,
      at |-> arrive]

\* convertToMarkdown(html), called at time t, the libraries behaving as o1, d1
\* (node-html-markdown) and o2, d2 (turndown): the value it resolves with,
\* the time at which it does, the tiers it has tried with their timers, and
\* whether the plain-text fallback was used
ConvertToMarkdown(html, o1, d1, o2, d2, t) ==
  LET t1 == Tier(o1, d1, t)
      t2 == Tier(o2, d2, t1.at)
  IN IF Accepts(t1.got)
       THEN [out |-> t1.got.value, finish |-> t1.at, tiers |-> <<t1>>, plain |-> FALSE]
       ELSE IF Accepts(t2.got)
         THEN [out |-> t2.got.value, finish |-> t2.at, tiers |-> <<t1, t2>>, plain |-> FALSE]
         ELSE [out |-> PlainText(html), finish |-> t2.at, tiers |-> <<t1, t2>>, plain |-> TRUE]

\* the HTML strings given to convertToMarkdown
Htmls == Strings({"LT", "GT", "a", "SP", "LF"}, MaxLen + 1)

\* convertToMarkdown(html) is called and runs to its return (no step of it
\* awaits a pending promise: it is over within the task that called it)
ConvertCall ==
  /\ call.fn = "convert"
  /\ call.pc = "ready"
  /\ \E o1, o2 \in TierOutcomes, d1, d2 \in Durations :
       LET r == ConvertToMarkdown(call.html, o1, d1, o2, d2, call.start) IN
         call' = [call EXCEPT !.pc = "done", !.lib = <<o1, o2>>, !.out = r.out,
                              !.finish = r.finish, !.tiers = r.tiers, !.plain = r.plain,
                              !.timers = {i \in 1..Len(r.tiers) : r.tiers[i].due # Null}]
  /\ UNCHANGED <<mgr, env, callerVars, sdVars, apiVars, variant, BUNDLE, run>>

\* the timer of a withTimeout call is due: its callback rejects a promise
\* whose race is settled, which has no effect
ConvertTimer ==
  /\ call.fn = "convert"
  /\ call.pc = "done"
  /\ \E i \in call.timers :
       /\ \A j \in call.timers : call.tiers[i].due <= call.tiers[j].due
       /\ call' = [call EXCEPT !.timers = @ \ {i}]
  /\ UNCHANGED <<mgr, env, callerVars, sdVars, apiVars, variant, BUNDLE, run>>

\* a convertToMarkdown(html) call about to be made, at time 0
ConvertInit ==
  \E h \in Htmls :
    call = [fn |-> "convert", pc |-> "ready", html |-> h, start |-> 0, lib |-> <<>>,
            out |-> <<>>, finish |-> 0, tiers |-> <<>>, plain |-> FALSE, timers |-> {}]

\* what an extraction engine returns for a document: null, or an article
\* with its metadata; md is what convertToMarkdown makes of its content
Markdowns == Strings({"n", "BS", "CR", "LF"}, MaxLen)
EngineResults ==
  {[kind |-> "null", title |-> "null", byline |-> "null", md |-> <<>>]}
    \cup [kind : {"article"}, title : {"", "T"}, byline : {"null", "B"}, md : Markdowns]

\* config.parser.engines: ['defuddle', 'readability']
Engines == 1..2

\* article.title || ''
OrEmpty(v) == IF v = "null" THEN "" ELSE v

Join_OneBreak(ms) ==
  IF ms = <<>> THEN <<>> ELSE IF Len(ms) = 1 THEN ms[1] ELSE ms[1] \o <<"LF">> \o ms[2]

\* results.map(r => r.markdown).join('\n\n')
RECURSIVE Join(_)
Join(ms) ==
  IF ms = <<>> THEN <<>>
  ELSE IF Len(ms) = 1 THEN ms[1]
  ELSE ms[1] \o <<"LF", "LF">> \o Join(Tail(ms))

NonNull_All(rs) == rs

\* the engines' results that are not null, in the order of the engines
RECURSIVE NonNull(_)
NonNull(rs) ==
  IF rs = <<>> THEN <<>>
  ELSE IF Head(rs).kind = "null" THEN NonNull(Tail(rs))
  ELSE <<Head(rs)>> \o NonNull(Tail(rs))

\* parseArticle and parseWebpage for engines that returned rs: an error when
\* no engine returned an article, otherwise the record built from the first
\* result's metadata and the joined, line-break normalised markdowns
ParseWebpage(rs) ==
  LET results == NonNull(rs) IN
    IF results = <<>>
      THEN [kind |-> "throws", title |-> "", byline |-> "", markdown |-> <<>>]
      ELSE [kind |-> "record",
            title |-> OrEmpty(results[1].title),
            byline |-> OrEmpty(results[1].byline),
            markdown |-> Join([i \in 1..Len(results) |-> NormalizeLineBreaks(results[i].md)])]

\* parseWebpage(html, url) is called and runs to its return
ParseCall ==
  /\ call.fn = "parseWebpage"
  /\ call.pc = "ready"
  /\ call' = [call EXCEPT !.pc = "done", !.out = ParseWebpage(call.results)]
  /\ UNCHANGED <<mgr, env, callerVars, sdVars, apiVars, variant, BUNDLE, run>>

\* a parseWebpage call about to be made, for a document of which the
\* engines make rs
ParseInit ==
  \E rs \in [Engines -> EngineResults] :
    call = [fn |-> "parseWebpage", pc |-> "ready", results |-> rs,
            out |-> [kind |-> "none", title |-> "", byline |-> "", markdown |-> <<>>]]

ParserInit ==
  /\ Served(1)
  /\ ConvertInit \/ ParseInit

NextParser ==
  \/ ConvertCall
  \/ ConvertTimer
  \/ ParseCall

\* calls of parser.js on all short inputs
ParserSpec == ParserInit /\ [][NextParser]_vars

\* ---------------------------------------------------------------------
\* extension-manager.js: downloadSingleExtension, downloadAllExtensions,
\* getExtensionArgs, initializeExtensions, and their call in initBrowser
\* ---------------------------------------------------------------------

\* EXTENSIONS_CONFIG: the configured extensions, in the order of the array
Extensions == {1, 2, 3}

\* the loop of downloadAllExtensions in a caller's initBrowser
NoLoop ==
  [at |-> 0,             \* the extension downloadSingleExtension works on (0: none yet)
   stage |-> "none",     \* the operation awaited: "access", "download", "mkdir", "extract"; "none" outside the loop
   paths |-> <<>>,       \* extensionPaths
   outcome |-> [e \in Extensions |-> "none"],
                         \* how downloadSingleExtension ended: "returned" (the
                         \* directory), "threw"
   result |-> "none",    \* downloadAllExtensions: "returned", "threw"
   args |-> <<>>]        \* the args given to puppeteer.launch()

\* downloadAllExtensions has called downloadSingleExtension for the first
\* extension, which awaits fs.access
StartLoop == [NoLoop EXCEPT !.at = 1, !.stage = "access"]

\* the loop of caller p: a caller that enters initializeExtensions() starts
\* a new one
LoopOf(p) == IF call.of[p].stage = "none" THEN StartLoop ELSE call.of[p]

\* config.browser.launchOptions.args
BaseArgs == <<[flag |-> "base", dirs |-> <<>>]>>

\* getExtensionArgs(extensionPaths)
GetExtensionArgs(paths) ==
  IF paths = <<>> THEN <<>>
  ELSE <<[flag |-> "--disable-extensions-except", dirs |-> paths],
         [flag |-> "--load-extension", dirs |-> paths],
         [flag |-> "--disable-web-security", dirs |-> <<>>],
         [flag |-> "--allow-running-insecure-content", dirs |-> <<>>]>>

\* downloadAllExtensions: `if (extensionPaths.length === 0) throw ...`,
\* otherwise `return extensionPaths`
DownloadAllExtensions(paths) == IF paths = <<>> THEN "threw" ELSE "returned"

\* initBrowser: `let extensionArgs = []; try { extensionArgs = await
\* initializeExtensions() } catch { ... }`, where initializeExtensions
\* returns getExtensionArgs(extensionPaths) or rethrows
ExtensionArgs(paths) ==
  IF DownloadAllExtensions(paths) = "threw" THEN <<>> ELSE GetExtensionArgs(paths)

\* initBrowser: const allArgs = [...config.browser.launchOptions.args, ...extensionArgs]
AllArgs(paths) == BaseArgs \o ExtensionArgs(paths)

AfterInitializeExtensions_Rethrow(result) ==
  IF result = "threw" THEN "failed" ELSE "launching"

\* initBrowser after `await initializeExtensions()`, returned or caught:
\* puppeteer.launch() is called
AfterInitializeExtensions(result) == "launching"

Caught_Abort(l) == [l EXCEPT !.at = Cardinality(Extensions)]

\* downloadAllExtensions: `catch (error) { console.error(...) }`: the loop
\* goes on
Caught(l) == l

\* downloadAllExtensions: downloadSingleExtension threw for extension e
Skip(l, e) == Caught([l EXCEPT !.outcome[e] = "threw"])

\* downloadAllExtensions: downloadSingleExtension returned the directory of
\* extension e: extensionPaths.push(extensionPath)
Push(l, e) == [l EXCEPT !.outcome[e] = "returned", !.paths = Append(@, e)]

\* the loop of caller p goes on after an extension, the directories being d:
\* the next extension's fs.access is awaited, or, after the last one,
\* downloadAllExtensions returns or throws, initializeExtensions and
\* initBrowser go on with it, and puppeteer.launch() is called
Continue(p, l, d) ==
  IF l.at < Cardinality(Extensions)
    THEN /\ call' = [call EXCEPT !.disk = d,
                                 !.of[p] = [l EXCEPT !.at = @ + 1, !.stage = "access"]]
         /\ pc' = pc
    ELSE /\ call' = [call EXCEPT !.disk = d,
                                 !.of[p] = [l EXCEPT !.at = Cardinality(Extensions) + 1,
                                                     !.stage = "none",
                                                     !.result = DownloadAllExtensions(l.paths),
                                                     !.args = AllArgs(l.paths)]]
         /\ pc' = [pc EXCEPT ![p] = AfterInitializeExtensions(DownloadAllExtensions(l.paths))]

\* downloadSingleExtension: ensureExtensionsDir() and `await
\* fs.access(extensionDir)` settle: ./extensions cannot be made (it throws),
\* the directory exists (it is returned), or it does not (downloadCrxDirect
\* is called)
AccessSettle(p) ==
  /\ ~exited
  /\ call.fn = "extensions"
  /\ pc[p] = "extensions"
  /\ LoopOf(p).stage = "access"
  /\ LET l == LoopOf(p) IN
       \/ Continue(p, Skip(l, l.at), call.disk)
       \/ /\ call.disk[l.at] # "absent"
          /\ Continue(p, Push(l, l.at), call.disk)
       \/ /\ call.disk[l.at] = "absent"
          /\ call' = [call EXCEPT !.of[p] = [l EXCEPT !.stage = "download"]]
          /\ pc' = pc
  /\ UNCHANGED <<mgr, env, target, closeOk, ret, fresh, late, why, calls, served,
                 sdVars, apiVars, variant, BUNDLE, run>>

\* downloadCrxDirect settles: the .crx file is written and extractCrxFile is
\* called, or it throws (fetch failed, HTTP status, empty body, write error)
DownloadSettle(p) ==
  /\ ~exited
  /\ call.fn = "extensions"
  /\ pc[p] = "extensions"
  /\ LoopOf(p).stage = "download"
  /\ LET l == LoopOf(p) IN
       \/ /\ call' = [call EXCEPT !.of[p] = [l EXCEPT !.stage = "mkdir"]]
          /\ pc' = pc
       \/ Continue(p, Skip(l, l.at), call.disk)
  /\ UNCHANGED <<mgr, env, target, closeOk, ret, fresh, late, why, calls, served,
                 sdVars, apiVars, variant, BUNDLE, run>>

\* extractCrxFile: `await fs.mkdir(extractDir, { recursive: true })` settles:
\* the extension's directory exists from now on, or mkdir throws
MkdirSettle(p) ==
  /\ ~exited
  /\ call.fn = "extensions"
  /\ pc[p] = "extensions"
  /\ LoopOf(p).stage = "mkdir"
  /\ LET l == LoopOf(p) IN
       \/ /\ call' = [call EXCEPT !.of[p] = [l EXCEPT !.stage = "extract"],
                                  !.disk[l.at] = IF @ = "absent" THEN "partial" ELSE @]
          /\ pc' = pc
       \/ Continue(p, Skip(l, l.at), call.disk)
  /\ UNCHANGED <<mgr, env, target, closeOk, ret, fresh, late, why, calls, served,
                 sdVars, apiVars, variant, BUNDLE, run>>

\* extractCrxFile: the rest settles: the files are extracted and the
\* directory is returned, or it throws (the .crx is too small, has a wrong
\* magic number or version, the ZIP cannot be read or written) and the
\* directory stays as it is
ExtractSettle(p) ==
  /\ ~exited
  /\ call.fn = "extensions"
  /\ pc[p] = "extensions"
  /\ LoopOf(p).stage = "extract"
  /\ LET l == LoopOf(p) IN
       \/ Continue(p, Push(l, l.at), [call.disk EXCEPT ![l.at] = "complete"])
       \/ Continue(p, Skip(l, l.at), call.disk)
  /\ UNCHANGED <<mgr, env, target, closeOk, ret, fresh, late, why, calls, served,
                 sdVars, apiVars, variant, BUNDLE, run>>

\* a server whose ./extensions directory is empty
ExtInit ==
  /\ Loaded
  /\ call = [fn |-> "extensions",
             disk |-> [e \in Extensions |-> "absent"],
             of |-> [p \in Callers |-> NoLoop]]

NextExt ==
  \/ \E p \in One : GetBrowserReuse(p) /\ UNCHANGED run
  \/ \E p \in One : GetBrowserRestart(p) /\ UNCHANGED run
  \/ \E p \in Callers : CloseSettle(p)
  \/ \E p \in Callers : AccessSettle(p)
  \/ \E p \in Callers : DownloadSettle(p)
  \/ \E p \in Callers : MkdirSettle(p)
  \/ \E p \in Callers : ExtractSettle(p)
  \/ \E p \in Callers : LaunchResolve(p)
  \/ \E p \in Callers : LaunchReject(p)
  \/ \E p \in One : Finish(p)
  \/ \E b \in Browsers : BrowserDisconnected(b)

\* the browser manager with initializeExtensions() followed through the
\* downloads: the startup launch and the getBrowser() calls of a caller
ExtSpec == ExtInit /\ [][NextExt]_vars



TypeOK ==
  /\ globalBrowser \in {Null} \cup Browsers
  /\ browserLaunchTime \in 0..(MaxTime + Grace)
  /\ requestCount \in 0..MaxRequests
  /\ now \in 1..(MaxTime + Grace)
  /\ nextId \in 0..MaxBrowsers
  /\ sdpc \in {"idle", "closing", "exited"}

\* ---------------------------------------------------------------------
\* Properties
\* ---------------------------------------------------------------------

LiveBrowsers == {b \in Browsers : live[b] = "live"}
Launching == {p \in Callers : pc[p] = "launching"}
InInit(p) == pc[p] \in {"closing", "extensions", "launching"}

\* caller p makes a getBrowser() call in this step
CallBy(p) == pc[p] = "idle" /\ pc'[p] # "idle"
\* caller p's getBrowser() call returns a browser in this step
ReturnBy(p) == pc[p] # "done" /\ pc'[p] = "done"
\* some caller enters initBrowser or calls puppeteer.launch() in this step
StartsInit == \E q \in Callers : pc'[q] # pc[q] /\ InInit(q)'

\* C1: under any interleaving of concurrent getBrowser() calls, at most one
\* launch is in progress, at most one browser is live, and every live browser
\* is the manager's current instance.
C1_SingleLiveInstance ==
  /\ Cardinality(Launching) <= 1
  /\ Cardinality(LiveBrowsers) <= 1
  /\ \A b \in LiveBrowsers : globalBrowser = b

\* the current instance is connected, not older than maxAge, and has served
\* fewer than maxRequests calls
Stable ==
  /\ globalBrowser # Null
  /\ live[globalBrowser] = "live"
  /\ browserLaunchTime # Null
  /\ now - browserLaunchTime <= MaxAge
  /\ requestCount < MaxRequests

\* C2: a getBrowser() call made while the current instance is connected, at
\* most maxAge old and requestCount < maxRequests returns the current
\* instance, leaves it the current instance, closes nothing and launches
\* nothing; so successive such calls all return the same instance.
C2_StableAcquireReusesInstance ==
  [][\A p \in Requests :
       (CallBy(p) /\ Stable) =>
         /\ ret'[p] = globalBrowser
         /\ globalBrowser' = globalBrowser
         /\ browserLaunchTime' = browserLaunchTime
         /\ live' = live
         /\ nextId' = nextId
         /\ closeReq' = closeReq
         /\ ~StartsInit]_vars

\* the only browser ever launched has been returned to maxRequests calls, the
\* last of which found it in use
C2_Witness ==
  /\ nextId = 1
  /\ calls >= 2
  /\ \E p \in Requests : pc[p] = "done" /\ why[p] = "reuse" /\ ret[p] = 1
  /\ served[1] = MaxRequests

\* C3: a getBrowser() call made when requestCount >= maxRequests returns
\* nothing before it has called close() on the instance that was current and
\* awaited it (if close() resolved, that instance is gone) and launched a new
\* one; it returns a just-launched instance distinct from the previous one,
\* which is then the current instance, and requestCount is 1 right after.
C3_RotationReplacesInstance ==
  [][\A p \in Requests :
       /\ (CallBy(p) /\ requestCount >= MaxRequests) =>
            /\ ret'[p] = Null
            /\ InInit(p)'
            /\ target'[p] = globalBrowser
            /\ globalBrowser # Null => (globalBrowser \in closeReq' /\ pc'[p] = "closing")
       /\ (pc[p] = "launching" /\ pc'[p] = "done") =>
            /\ ret'[p] # Null
            /\ ret'[p] # target[p]
            /\ live[ret'[p]] = "none"
            /\ live'[ret'[p]] = "live"
            /\ globalBrowser' = ret'[p]
            /\ requestCount' = 1
            /\ served'[ret'[p]] = 1
            /\ target[p] # Null =>
                 /\ target[p] \in closeReq
                 /\ closeOk[p] => live[target[p]] = "dead"]_vars

\* a caller has rotated away an instance that had served maxRequests calls
C3_Witness ==
  \E p \in Requests :
    /\ pc[p] = "done"
    /\ target[p] # Null
    /\ why[p] = "count"
    /\ closeOk[p]
    /\ live[target[p]] = "dead"
    /\ ret[p] # Null
    /\ ret[p] # target[p]
    /\ requestCount = 1

\* C4: requestCount never exceeds maxRequests, no browser is returned by more
\* than maxRequests getBrowser() calls, and a call that finds the request
\* count or the age threshold crossed returns nothing in that step: it goes
\* through initBrowser first.
C4_ThresholdsEnforced ==
  /\ [](/\ requestCount <= MaxRequests
        /\ \A b \in Browsers : served[b] <= MaxRequests)
  /\ [][\A p \in Requests :
          (CallBy(p) /\ (requestCount >= MaxRequests \/ BrowserAge > MaxAge)) =>
             /\ ret'[p] = Null
             /\ InInit(p)'
             /\ requestCount' = requestCount]_vars

\* the current instance has served maxRequests calls and a caller that found
\* it so is closing it
C4_Witness ==
  /\ globalBrowser # Null
  /\ requestCount = MaxRequests
  /\ served[globalBrowser] = MaxRequests
  /\ BrowserAge <= MaxAge
  /\ \E p \in Requests : pc[p] = "closing" /\ target[p] = globalBrowser

\* C5: every getBrowser() call that returns a browser adds exactly one to the
\* number of calls served by that browser, requestCount grows only in such a
\* step and only by one, and requestCount equals the number of calls that
\* returned the current instance.
C5_CountMatchesReturns ==
  /\ [](globalBrowser # Null => requestCount = served[globalBrowser])
  /\ [][/\ \A p \in Requests :
             ReturnBy(p) =>
               /\ served'[ret'[p]] = served[ret'[p]] + 1
               /\ globalBrowser' = ret'[p]
               /\ requestCount' = served'[ret'[p]]
        /\ requestCount' > requestCount =>
             /\ requestCount' = requestCount + 1
             /\ \E p \in Requests : ReturnBy(p)]_vars

\* two browsers were launched by concurrent callers and the current one has
\* served maxRequests calls
C5_Witness ==
  /\ nextId >= 2
  /\ Cardinality(LiveBrowsers) >= 2
  /\ globalBrowser # Null
  /\ requestCount = MaxRequests
  /\ served[globalBrowser] = MaxRequests


\* C6: when a browser reports disconnection the manager becomes
\* uninitialized (globalBrowser is null, so getBrowserStats().isInitialized is
\* false) and the handler starts no launch and moves no caller; a
\* getBrowser() call made while the manager is uninitialized returns nothing
\* before it has gone through initBrowser, and what it then returns is a
\* browser launched after the call was made.
C6_DisconnectDefersRelaunch ==
  [][/\ \A b \in Browsers :
          (live[b] = "live" /\ live'[b] = "dead") =>
             /\ globalBrowser' = Null
             /\ pc' = pc
             /\ nextId' = nextId
             /\ \A c \in Browsers \ {b} : live'[c] = live[c]
     /\ \A p \in Requests :
          /\ (CallBy(p) /\ globalBrowser = Null) =>
               /\ ret'[p] = Null
               /\ pc'[p] = "extensions"
               /\ closeReq' = closeReq
          /\ (pc[p] = "launching" /\ pc'[p] = "done") =>
               /\ ret'[p] # Null
               /\ live[ret'[p]] = "none"
               /\ live'[ret'[p]] = "live"]_vars

\* a browser that nobody closed is gone, and a caller that called after it
\* was launched, finding no current instance, has got a later, live browser
C6_Witness ==
  \E b \in Browsers, p \in Requests :
    /\ live[b] = "dead"
    /\ b \notin closeReq
    /\ pc[p] = "done"
    /\ why[p] = "null"
    /\ ret[p] > b
    /\ live[ret[p]] = "live"
    /\ globalBrowser = ret[p]

\* C7: a getBrowser() call whose launch fails returns no browser, changes
\* neither globalBrowser, browserLaunchTime nor requestCount, and launches
\* nothing more: its caller starts another launch only by a new getBrowser()
\* call.  Unless another caller's launch has completed since the failed call
\* began, the manager is then still in a state in which the next getBrowser()
\* call goes through initBrowser.
C7_LaunchFailurePropagates ==
  /\ [](\A p \in Requests :
          /\ pc[p] = "failed" => ret[p] = Null
          /\ (pc[p] = "failed" /\ fresh[p]) => NeedRestart)
  /\ [][\A p \in Requests :
          /\ (pc[p] = "launching" /\ pc'[p] = "failed") =>
               /\ UNCHANGED mgr
               /\ UNCHANGED <<live, nextId, served, closeReq>>
               /\ \A q \in Callers \ {p} : pc'[q] = pc[q]
          /\ pc[p] = "failed" => pc'[p] \in {"failed", "idle"}
          /\ (InInit(p)' /\ ~InInit(p)) => CallBy(p)
          /\ pc[p] = "launching" => pc'[p] \in {"launching", "done", "failed"}]_vars

\* a call made at requestCount = maxRequests has failed on its launch, no
\* browser has been launched since, and the count is still maxRequests
C7_Witness ==
  \E p \in Requests :
    /\ pc[p] = "failed"
    /\ fresh[p]
    /\ why[p] = "count"
    /\ target[p] # Null
    /\ requestCount = MaxRequests

\* C8: once the browser closed by shutdownBrowser() after a shutdown signal is
\* gone, no getBrowser() call made later reaches puppeteer.launch().
C8_NoLaunchAfterShutdown ==
  \A p \in Requests : late[p] => pc[p] \notin {"launching"}

\* C9: from a shutdown signal on, the process is never still running later
\* than the grace period after the signal, and when it has exited, it exited
\* no later than that (the clock stops at process.exit).
C9_ExitWithinGrace ==
  /\ (isShuttingDown /\ ~exited) => now <= signalTime + Grace
  /\ exited => now <= signalTime + Grace

\* the close() of shutdownBrowser() never took effect and the process exited
\* by the forceExit timer, at the end of the grace period
C9_Witness ==
  /\ exited
  /\ sdTarget # Null
  /\ live[sdTarget] = "live"
  /\ globalBrowser = sdTarget
  /\ now = signalTime + Grace

\* C10: a shutdownBrowser() call that finds no current instance (the state a
\* completed shutdownBrowser() leaves) closes nothing and changes no state of
\* the manager; a completed shutdownBrowser() leaves globalBrowser null; a
\* shutdown signal that arrives while shutdown is in progress changes nothing,
\* and gracefulShutdown calls close() at most once.
C10_ShutdownIdempotent ==
  /\ [](sdCloses <= 1)
  /\ [][/\ (apipc = "idle" /\ apiLast' # apiLast /\ globalBrowser = Null) =>
             /\ UNCHANGED mgr
             /\ UNCHANGED <<live, closeReq, nextId, pc>>
             /\ apipc' = "idle"
        /\ (apipc = "closing" /\ apipc' = "idle") => globalBrowser' = Null
        /\ (ignored' /\ ~ignored) =>
             /\ isShuttingDown
             /\ UNCHANGED mgr
             /\ UNCHANGED <<live, closeReq, nextId, pc>>
             /\ UNCHANGED <<isShuttingDown, sdpc, sdTarget, signalTime, sdCloses>>]_vars

\* a first shutdownBrowser() closed the startup browser, a later one found
\* nothing to close; then a shutdown signal started the teardown of a new
\* browser and a second signal was ignored
C10_Witness ==
  /\ apiLast = "repeat"
  /\ apipc = "idle"
  /\ apiTarget = Null
  /\ 1 \in closeReq
  /\ live[1] = "dead"
  /\ ignored
  /\ sdpc = "closing"
  /\ sdCloses = 1
  /\ sdTarget # Null
  /\ sdTarget # 1

\* ---- POST /crawl ----

\* the request's POST /crawl is handled in this step
HandledBy(p) == RunOf(p).body = NoBody /\ RunOf(p)'.body # NoBody
\* the url of body b is missing or not a string
UrlMissing(b) == b.url \in {"undefined", "number"}
\* test is falsy and the callback_url of body b is missing or not a string
CallbackMissing(b) ==
  b.test \in {"undefined", "false"} /\ b.callback_url \in {"undefined", "number"}

TestRequest(b) == b.url = "string" /\ b.test = "true"

\* C12: a request with a valid url and test = true is accepted whatever its
\* callback_url (missing, not a string, a string): it is never answered 400
\* and its pipeline is started in the step that handles it; no callback POST
\* is ever made for it: at no step is fetch(callback_url) called or awaited.
C12_TestModeNeverPosts ==
  /\ [](\A p \in One :
          TestRequest(RunOf(p).body) =>
            /\ RunOf(p).resp.status # 400
            /\ RunOf(p).posts = 0
            /\ RunOf(p).delivery = "none"
            /\ RunOf(p).stage # "callback")
  /\ [][\A p \in One :
          /\ (HandledBy(p) /\ TestRequest(RunOf(p)'.body)) =>
               IF variant = "sync" THEN RunOf(p)'.stage = "launch" ELSE pc'[p] # "idle"
          /\ TestRequest(RunOf(p).body) => RunOf(p)'.posts = RunOf(p).posts]_vars

\* a test request without callback_url went through the whole pipeline and
\* its result was printed
C12_Witness ==
  \E p \in One :
    /\ TestRequest(RunOf(p).body)
    /\ RunOf(p).body.callback_url = "undefined"
    /\ RunOf(p).article = "article"
    /\ RunOf(p).logged
    /\ RunOf(p).stage = "cleanup"
    /\ RunOf(p).posts = 0

\* the body passes the validation of the specification: url is a non-empty
\* string, and callback_url is one too unless test is true
ValidBody(b) ==
  /\ b.url = "string"
  /\ b.test = "true" \/ b.callback_url = "string"

\* C13: in the fire-and-forget server a request that passes validation is
\* answered 202 {message: "Request accepted and processed"} in the step that
\* handles it, in which its pipeline has not got past the call of
\* getBrowser(); no pipeline step sends or changes a response, so the answer
\* is the same whether the pipeline later fails at acquire, navigation,
\* extraction or delivery, or succeeds.
C13_AcceptedBeforePipeline ==
  /\ [](\A p \in One :
          (variant = "detached" /\ RunOf(p).body # NoBody /\ ValidBody(RunOf(p).body)) =>
             /\ RunOf(p).resp = [status |-> 202, text |-> "Request accepted and processed"]
             /\ RunOf(p).replies = 1)
  /\ [][\A p \in One :
          variant = "detached" =>
            /\ (HandledBy(p) /\ ValidBody(RunOf(p)'.body)) =>
                 /\ RunOf(p)'.stage = "idle"
                 /\ RunOf(p)'.page = "none"
                 /\ pc'[p] \in {"done", "closing", "extensions"}
            /\ RunOf(p).body # NoBody =>
                 /\ RunOf(p)'.resp = RunOf(p).resp
                 /\ RunOf(p)'.replies = RunOf(p).replies]_vars

\* an accepted request's callback POST failed on the network; the answer
\* had been 202
C13_Witness ==
  \E p \in One :
    /\ variant = "detached"
    /\ ValidBody(RunOf(p).body)
    /\ RunOf(p).delivery = "neterr"
    /\ RunOf(p).stage = "cleanup"
    /\ RunOf(p).resp.status = 202

\* ---- the extraction pipeline ----

\* the request's pipeline, past getBrowser(), takes a step
PipelineStep(p) == RunOf(p)'.stage # RunOf(p).stage \/ RunOf(p)'.page # RunOf(p).page

\* C14: a pipeline run that created a tab ends only through the finally
\* block with page.close() called on its tab, on every path: after a callback
\* POST, after an error or a navigation timeout, after an extraction that
\* returned nothing; and no step of the run past getBrowser() calls close()
\* on a browser, takes a browser down or changes the manager's instance.
C14_TabReleasedBrowserKept ==
  /\ [](\A p \in Crawls :
          /\ (RunOf(p).stage = "end" /\ RunOf(p).page # "none") => RunOf(p).closeTried
          /\ RunOf(p).stage = "cleanup" => (RunOf(p).closeTried /\ RunOf(p).page # "none")
          /\ (RunOf(p).page # "none" /\ (RunOf(p).failedAt # "none" \/ RunOf(p).delivery # "none")) =>
               (RunOf(p).closeTried /\ RunOf(p).stage = "cleanup"))
  /\ [][\A p \in Crawls :
          /\ (RunOf(p)'.stage = "end" /\ RunOf(p).stage # "end" /\ RunOf(p).page # "none") =>
               RunOf(p).stage = "cleanup"
          /\ PipelineStep(p) =>
               /\ closeReq' = closeReq
               /\ live' = live
               /\ globalBrowser' = globalBrowser]_vars

\* a run whose navigation timed out has closed its tab and ended; the browser
\* it used is running, nobody called close() on it and it is still the
\* manager's instance
C14_Witness ==
  \E p, q \in Crawls :
    /\ p # q
    /\ RunOf(p).stage = "end"
    /\ RunOf(p).page = "closed"
    /\ RunOf(p).closeTried
    /\ RunOf(q).failedAt = "timeout"
    /\ RunOf(q).stage = "cleanup"
    /\ RunOf(q).closeTried
    /\ ret[p] = ret[q]
    /\ live[ret[p]] = "live"
    /\ ret[p] \notin closeReq
    /\ globalBrowser = ret[p]

OpenTabs == {p \in Crawls : TabOpen(p)}
InFlightRequests == {p \in Crawls : InFlight(p)}

\* C15: a request creates a tab at most once, and only while it is in
\* flight; a tab is open only while the request that created it is in
\* flight, so open tabs never outnumber the requests in flight; and no tab is
\* closed by another request: nobody calls close() on a browser in which a
\* request has an open tab.
C15_TabsOwnedByRequests ==
  /\ [](/\ \A p \in Crawls : TabOpen(p) => InFlight(p)
        /\ Cardinality(OpenTabs) <= Cardinality(InFlightRequests))
  /\ [][\A p \in Crawls :
          /\ (RunOf(p)'.page = "open" /\ RunOf(p).page # "open") => (RunOf(p).page = "none" /\ InFlight(p))
          /\ (TabOpen(p) /\ ret[p] \in closeReq') => ret[p] \in closeReq]_vars

\* the step in which the pipeline of request p fails past getBrowser(): an
\* awaited operation throws, the parser returns nothing, the callback POST
\* fails, or page.close() throws
FailsPastAcquire(p) ==
  \/ RunOf(p)'.failedAt # RunOf(p).failedAt /\ RunOf(p)'.failedAt # "none"
  \/ RunOf(p)'.delivery # RunOf(p).delivery /\ RunOf(p)'.delivery \in {"non2xx", "neterr"}
  \/ RunOf(p).stage = "cleanup" /\ RunOf(p)'.stage = "end" /\ RunOf(p)'.page = "open"

\* C16: the step in which a request fails past getBrowser() (at tab
\* creation, sanitization, navigation, extraction, delivery or cleanup), and
\* every later step of that request, leaves globalBrowser, browserLaunchTime
\* and requestCount as they are, takes no browser down, calls close() on no
\* browser, and leaves the tab and the pipeline position of every other
\* request as they are: a tab of another request that was open is open.
C16_FailureIsContained ==
  [][\A p \in Crawls :
       (FailsPastAcquire(p) \/ (PipelineStep(p) /\ (RunOf(p).failedAt # "none" \/ RunOf(p).delivery # "none"))) =>
          /\ UNCHANGED mgr
          /\ UNCHANGED <<live, closeReq, nextId, served>>
          /\ \A q \in Crawls \ {p} :
               /\ RunOf(q)'.page = RunOf(q).page
               /\ RunOf(q)'.stage = RunOf(q).stage
               /\ pc'[q] = pc[q]
               /\ TabOpen(q) => TabOpen(q)']_vars

\* a request's navigation failed and its tab is being closed, while another
\* request navigates in its own tab in the same browser, which is the
\* manager's instance with both requests counted
C16_Witness ==
  \E p, q \in Crawls :
    /\ p # q
    /\ RunOf(p).failedAt = "goto"
    /\ RunOf(p).stage = "cleanup"
    /\ RunOf(q).stage = "goto"
    /\ TabOpen(q)
    /\ ret[p] = ret[q]
    /\ globalBrowser = ret[p]
    /\ live[globalBrowser] = "live"
    /\ requestCount = 2
    /\ served[globalBrowser] = 2

\* the run is in its finally block: the synchronous handler awaits
\* disableBlockingInPage(), then page.close(), then browser.close();
\* processCrawlRequest awaits page.close()
FinallyStages == {"unblock", "cleanup", "shutdown"}

\* the steps before the article is extracted
BeforeExtracted == {"launch", "page", "sanitize", "goto", "timeout", "content", "extract"}

\* C17: a request whose pipeline failed before the article was extracted (in
\* getBrowser() or the launch, at tab creation, sanitization, navigation by
\* error or by timeout, at page.content(), or because every parser engine
\* returned null) has had no callback POST made and never gets one: its
\* pipeline only goes on through its finally block to its end; a callback POST is made only
\* by the step that extracted an article, of a run that has not failed.
C17_NoCallbackWithoutArticle ==
  /\ [](\A p \in One :
          /\ (RunOf(p).failedAt \in BeforeExtracted \/ RunOf(p).article = "null" \/ pc[p] = "failed") =>
               /\ RunOf(p).posts = 0
               /\ RunOf(p).delivery = "none"
               /\ RunOf(p).stage \in {"idle", "end"} \cup FinallyStages)
  /\ [][\A p \in One :
          /\ RunOf(p)'.posts > RunOf(p).posts =>
               /\ RunOf(p).stage = "content"
               /\ RunOf(p)'.failedAt = "none"
               /\ RunOf(p)'.article = "article"
               /\ pc[p] # "failed"
          /\ RunOf(p).stage \in FinallyStages => RunOf(p)'.stage \in FinallyStages \cup {"end"}
          /\ RunOf(p).stage = "end" => RunOf(p)'.stage = "end"
          /\ pc[p] = "failed" => (pc'[p] = "failed" /\ RunOf(p)'.stage = RunOf(p).stage)]_vars

\* both parser engines returned null for a request with a callback_url: its
\* tab is being closed and no POST was made
C17_Witness ==
  \E p \in One :
    /\ RunOf(p).body.test = "false"
    /\ RunOf(p).body.callback_url = "string"
    /\ RunOf(p).article = "null"
    /\ RunOf(p).failedAt = "extract"
    /\ RunOf(p).stage = "cleanup"
    /\ RunOf(p).posts = 0

\* C18: a callback POST that fails (a network error or a non-2xx response)
\* does not reach the catch block: the run is not marked failed, it goes on
\* to the finally block (in processCrawlRequest with page.close() called,
\* in the synchronous handler with disableBlockingInPage() called first), from
\* where it ends; the synchronous handler has answered 202, once.
C18_DeliveryFailureNotFatal ==
  /\ [](\A p \in One :
          RunOf(p).delivery \in {"non2xx", "neterr"} =>
            /\ RunOf(p).failedAt = "none"
            /\ RunOf(p).stage \in FinallyStages
            /\ variant = "detached" => (RunOf(p).stage = "cleanup" /\ RunOf(p).closeTried)
            /\ variant = "sync" => (RunOf(p).resp.status = 202 /\ RunOf(p).replies = 1))
  /\ [][\A p \in One :
          (RunOf(p).stage = "callback" /\ RunOf(p)'.stage # "callback") =>
             /\ RunOf(p)'.stage = (IF variant = "sync" THEN "unblock" ELSE "cleanup")
             /\ RunOf(p)'.failedAt = "none"
             /\ variant = "sync" => RunOf(p)'.resp.status = 202]_vars

\* the synchronous handler's callback POST failed on the network: the answer
\* was 202 and the cleanup is running
C18_Witness ==
  \E p \in One :
    /\ variant = "sync"
    /\ RunOf(p).delivery = "neterr"
    /\ RunOf(p).resp = [status |-> 202, text |-> "Request accepted but callback failed"]
    /\ RunOf(p).stage = "cleanup"
    /\ RunOf(p).failedAt = "none"

\* C19: at most one callback POST is made per request: fetch(callback_url)
\* is called only by a run that has made none and has seen none settle, so a
\* failed POST is not repeated; and a result is never both POSTed and printed
\* as test-mode output.
C19_SinglePostOrLog ==
  /\ [](\A p \in One :
          /\ RunOf(p).posts <= 1
          /\ ~(RunOf(p).logged /\ (RunOf(p).posts > 0 \/ RunOf(p).delivery # "none"))
          /\ RunOf(p).delivery # "none" => RunOf(p).posts = 1)
  /\ [][\A p \in One :
          /\ RunOf(p)'.posts > RunOf(p).posts => (RunOf(p).posts = 0 /\ RunOf(p).delivery = "none" /\ ~RunOf(p).logged)
          /\ (RunOf(p)'.logged /\ ~RunOf(p).logged) => (RunOf(p).posts = 0 /\ RunOf(p)'.posts = 0)
          /\ RunOf(p).stage = "end" => (RunOf(p)'.posts = RunOf(p).posts /\ RunOf(p)'.logged = RunOf(p).logged)]_vars

\* a callback POST got a non-2xx answer; it was the only one and the run is
\* in its cleanup
C19_Witness ==
  \E p \in One :
    /\ RunOf(p).delivery = "non2xx"
    /\ RunOf(p).posts = 1
    /\ ~RunOf(p).logged
    /\ RunOf(p).stage = "cleanup"

\* C20: the synchronous handler sends one response per request, and its
\* status follows the outcome: 400 for an invalid body, 200 when the result
\* was printed in test mode, 202 when the callback POST was made (whether
\* it succeeded or not), 502 when the navigation (error or timeout) or the
\* extraction failed, 500 for a failure of any other step (launch included).
C20_SyncStatusByOutcome ==
  \A p \in One :
    variant = "sync" =>
      /\ RunOf(p).replies <= 1
      /\ (RunOf(p).replies = 0) = (RunOf(p).resp = NoResp)
      /\ RunOf(p).stage \in FinallyStages \cup {"end"} => RunOf(p).replies = 1
      /\ RunOf(p).logged => RunOf(p).resp.status = 200
      /\ RunOf(p).delivery # "none" => RunOf(p).resp.status = 202
      /\ RunOf(p).failedAt \in {"goto", "timeout", "extract"} => RunOf(p).resp.status = 502
      /\ RunOf(p).failedAt \in {"launch", "page", "sanitize", "content"} => RunOf(p).resp.status = 500

\* ---- the synchronous handler's cleanup ----

\* C21: when the synchronous handler is over, close() has been called on the
\* page it created and on the browser it launched, whatever happened before:
\* on success, after any failure of the pipeline, and after a cleanup step
\* (disableBlockingInPage or page.close()) that itself failed.
C21_SyncCleanupClosesAll ==
  \A p \in One :
    (variant = "sync" /\ RunOf(p).stage = "end") =>
       /\ RunOf(p).page # "none" => RunOf(p).closeTried
       /\ ret[p] # Null => ret[p] \in closeReq

\* ---- parser.js ----

\* a convertToMarkdown call has returned
Converted == call.fn = "convert" /\ call.pc = "done"

\* C22: a convertToMarkdown call on a string resolves with a string, whatever
\* the two libraries do (return text, return nothing or a blank, throw, run
\* long), and it does so no later than two conversion timeouts after the call.
C22_ConvertTotalAndBounded ==
  Converted =>
    /\ call.out \in Seq({"LT", "GT", "a", "SP", "LF"})
    /\ call.finish - call.start <= 2 * Timeout

\* tier i of the finished call was attempted
Attempted(i) == i <= Len(call.tiers)
\* the timer of tier i had fired when the result of the tier arrived
TimedOut(i) == call.tiers[i].due # Null /\ call.tiers[i].due <= call.tiers[i].arrive
\* tier i finished without exception or timeout, with text left after trimming
TierOk(i) ==
  /\ Attempted(i)
  /\ call.lib[i].kind = "string"
  /\ Trim(call.lib[i].value) # <<>>
  /\ ~TimedOut(i)

ParsedBoth ==
  /\ call.fn = "parseWebpage"
  /\ call.pc = "done"
  /\ \A e \in Engines : call.results[e].kind = "article"

\* C23 as stated: with both engines returning an article, the combined
\* markdown is the two convertToMarkdown outputs, in the order of the engines,
\* with "\n\n" between them, and title and byline are the first engine's.
C23_JoinOfConvertedOutputs ==
  ParsedBoth =>
    /\ call.out.markdown = call.results[1].md \o <<"LF", "LF">> \o call.results[2].md
    /\ call.out.title = OrEmpty(call.results[1].title)
    /\ call.out.byline = OrEmpty(call.results[1].byline)

\* C23: with both engines returning an article, the combined markdown is the
\* two convertToMarkdown outputs after line-break normalisation (an escaped
\* \n, a \r\n and a \r each replaced by a newline), in the order of the
\* engines, with exactly one "\n\n" between them, so it holds no \r; title
\* and byline are the first engine's, a missing one given as ''.
C23_JoinOfNormalisedOutputs ==
  ParsedBoth =>
    /\ call.out.kind = "record"
    /\ call.out.markdown =
         NormalizeLineBreaks(call.results[1].md) \o <<"LF", "LF">>
           \o NormalizeLineBreaks(call.results[2].md)
    /\ \A i \in 1..Len(call.out.markdown) : call.out.markdown[i] # "CR"
    /\ Len(call.out.markdown) <= Len(call.results[1].md) + 2 + Len(call.results[2].md)
    /\ call.out.title = OrEmpty(call.results[1].title)
    /\ call.out.byline = OrEmpty(call.results[1].byline)

\* the first engine's markdown is an escaped \n and the second's a \r\n: the
\* combined markdown is four newlines, under the first engine's title
C23_Witness ==
  /\ ParsedBoth
  /\ call.results[1].md = <<"BS", "n">>
  /\ call.results[2].md = <<"CR", "LF">>
  /\ call.results[1].title = "T"
  /\ call.results[2].title = ""
  /\ call.results[1].byline = "null"
  /\ call.out.markdown = <<"LF", "LF", "LF", "LF">>
  /\ call.out.title = "T"
  /\ call.out.byline = ""

\* ---- GET /health ----

\* C24: a GET /health request (the only caller of getBrowserStats() that
\* keeps what it returns) changes neither globalBrowser nor browserLaunchTime
\* nor requestCount, launches no browser, closes none and starts no
\* getBrowser() call; the initialized flag and the requestCount of its answer
\* are those of the manager at that moment, and its age is the time since the
\* launch.
C24_StatsReadOnly ==
  [][call' # call =>
       /\ UNCHANGED mgr
       /\ UNCHANGED <<live, nextId, closeReq, pc, calls, served>>
       /\ call'.fn = "health"
       /\ call'.browser.isInitialized = (globalBrowser # Null)
       /\ call'.browser.requestCount = requestCount
       /\ browserLaunchTime # Null => call'.browser.ageMs = now - browserLaunchTime]_vars

\* a health answer given when the browser had served two requests and had
\* been running for a tick
C24_Witness ==
  /\ call.fn = "health"
  /\ call.browser.isInitialized
  /\ call.browser.requestCount = 2
  /\ call.browser.ageMs = 1
  /\ requestCount = 2
  /\ globalBrowser # Null
  /\ now - browserLaunchTime = 1

\* ---- the consent script ----

\* C25: getAutoConsentScript builds (or loads) the script at most once in
\* the life of the process, however its calls interleave, and once a build
\* has succeeded BUNDLE keeps that script: no later call builds again.
C25_BundleBuiltOnce ==
  /\ [](BUNDLE \in {Null, 1})
  /\ [][BUNDLE # Null => BUNDLE' = BUNDLE]_vars

\* ---- the order of the pipeline ----

\* the operations a handling awaits, in the order of the code
StageOrder ==
  <<"idle", "launch", "page", "sanitize", "bundle", "consent", "goto", "content",
    "callback", "unblock", "cleanup", "shutdown", "end">>
Rank(st) == CHOOSE i \in 1..Len(StageOrder) : StageOrder[i] = st

\* C26: a request's pipeline only moves forward through acquire browser,
\* create tab, install the filter, register the consent script, navigate,
\* read the HTML and extract, deliver, close the tab: the tab is created only
\* with the browser acquired, the consent step starts only once the filter
\* is installed, navigation starts only from the consent step (after its
\* registration or its failed build), page.content() is called only after the
\* navigation, the callback POST is made only by the step that extracted an
\* article, and page.close() is not called while a callback POST is pending.
C26_PipelineOrder ==
  /\ [](\A p \in One :
          /\ (RunOf(p).page # "none" /\ variant = "detached") => (pc[p] = "done" /\ ret[p] # Null)
          /\ RunOf(p).stage \in {"sanitize", "bundle", "consent", "goto", "content", "callback"} =>
               RunOf(p).page = "open"
          /\ RunOf(p).stage = "callback" => (RunOf(p).article = "article" /\ ~RunOf(p).closeTried)
          /\ RunOf(p).closeTried => RunOf(p).stage \in {"cleanup", "shutdown", "end"})
  /\ [][\A p \in One :
          RunOf(p)'.stage # RunOf(p).stage =>
            /\ Rank(RunOf(p)'.stage) > Rank(RunOf(p).stage)
            /\ RunOf(p)'.stage = "sanitize" =>
                 (RunOf(p).stage \in {"idle", "page"} /\ RunOf(p).page = "none" /\ RunOf(p)'.page = "open")
            /\ RunOf(p)'.stage \in {"bundle", "consent"} => RunOf(p).stage \in {"sanitize", "bundle"}
            /\ RunOf(p)'.stage = "goto" => RunOf(p).stage \in {"bundle", "consent"}
            /\ RunOf(p)'.stage = "content" => RunOf(p).stage = "goto"
            /\ RunOf(p)'.stage = "callback" =>
                 (RunOf(p).stage = "content" /\ RunOf(p)'.article = "article")
            /\ (RunOf(p)'.closeTried /\ ~RunOf(p).closeTried /\ RunOf(p).posts > 0) =>
                 RunOf(p)'.delivery # "none"]_vars

\* a request of the fire-and-forget server went through every step: its
\* callback POST was answered and page.close() has been called
C26_Witness ==
  \E p \in One :
    /\ variant = "detached"
    /\ pc[p] = "done"
    /\ RunOf(p).article = "article"
    /\ RunOf(p).posts = 1
    /\ RunOf(p).delivery = "ok"
    /\ RunOf(p).failedAt = "none"
    /\ RunOf(p).stage = "cleanup"
    /\ RunOf(p).closeTried

\* C27: a failure of either sanitizer sub-step (the installation of the
\* filter on the tab, the registration of the consent script) leaves the
\* request unfailed and on its way to the navigation: the step that ends a
\* sanitizer sub-step goes on to the consent step or to page.goto().
C27_SanitizerFailSoft ==
  [][\A p \in One :
       (RunOf(p).stage \in {"sanitize", "bundle", "consent"} /\ RunOf(p)'.stage # RunOf(p).stage) =>
          /\ RunOf(p)'.stage \in {"bundle", "consent", "goto"}
          /\ RunOf(p)'.failedAt = "none"]_vars

\* ---- errors of the detached pipeline ----

\* how the promise that processCrawlRequest returned for request p has settled
PromiseOf(p) ==
  IF pc[p] = "failed" THEN SettledAs(TRUE) ELSE RunOf(p).settled

\* C28: the promise of processCrawlRequest is never rejected: whatever fails
\* after validation (getBrowser(), a pipeline step, the callback POST,
\* page.close() in the finally block), the handling ends with its promise
\* resolved, so the .catch() of the POST /crawl handler never runs and nothing
\* reaches a process-level handler.
C28_DetachedNeverRejects ==
  \A p \in One :
    variant = "detached" =>
      /\ PromiseOf(p) # "rejected"
      /\ Terminated(p) => PromiseOf(p) = "resolved"
      /\ RunOf(p).settled # "none" => RunOf(p).stage = "end"

\* page.close() threw in the finally block: the tab is still open, the
\* handling is over and its promise resolved
C28_Witness ==
  \E p \in One :
    /\ variant = "detached"
    /\ RunOf(p).stage = "end"
    /\ RunOf(p).closeTried
    /\ RunOf(p).page = "open"
    /\ PromiseOf(p) = "resolved"

\* ---- termination ----

\* C29: every request that passed validation terminates as long as the
\* process is not shut down: its pipeline reaches its end (through the
\* finally block, with page.close() called on its tab), so no request stays
\* in flight forever.
C29_RequestsTerminate == \A p \in One : InFlight(p) ~> Terminated(p)

\* ---- the plain-text tier ----

\* s holds a match of <[^>]*>: a < with a > somewhere after it
HasTag(s) == \E i, j \in 1..Len(s) : i < j /\ s[i] = "LT" /\ s[j] = "GT"

\* C31: what the plain-text tier returns, for any HTML string, holds no
\* match of <[^>]*>, neither starts nor ends with whitespace, and holds no
\* whitespace but single blanks (no newline, no two blanks in a row).
C31_PlainTextIsClean ==
  (Converted /\ call.plain) =>
     /\ ~HasTag(call.out)
     /\ call.out # <<>> => (~IsSpace(call.out[1]) /\ ~IsSpace(call.out[Len(call.out)]))
     /\ \A i \in 1..Len(call.out) :
          IsSpace(call.out[i]) =>
            (call.out[i] = "SP" /\ (i < Len(call.out) => ~IsSpace(call.out[i + 1])))

\* an HTML with a newline and an unclosed <: the newline became a blank and
\* the < stayed, with no > after it
C31_Witness ==
  /\ Converted
  /\ call.plain
  /\ call.html = <<"a", "LF", "LT">>
  /\ call.out = <<"a", "SP", "LT">>

\* ---- an engine that finds no article ----

\* a finished parseWebpage call in which the first engine returned null and
\* the second one an article
ParsedSecondOnly ==
  /\ call.fn = "parseWebpage"
  /\ call.pc = "done"
  /\ call.results[1].kind = "null"
  /\ call.results[2].kind = "article"

\* C32: when the first engine returns null and the second an article,
\* parseWebpage returns a record, its title and byline are those of the
\* second engine's article, and its markdown is that engine's markdown alone,
\* with no "\n\n" for the engine that failed.
C32_FailedEngineLeavesNoTrace ==
  ParsedSecondOnly =>
    /\ call.out.kind = "record"
    /\ call.out.title = OrEmpty(call.results[2].title)
    /\ call.out.byline = OrEmpty(call.results[2].byline)
    /\ call.out.markdown = NormalizeLineBreaks(call.results[2].md)

\* the second engine alone returned an article with a title, a byline and a
\* text, and the record carries the three
C32_Witness ==
  /\ ParsedSecondOnly
  /\ call.results[2].title = "T"
  /\ call.results[2].byline = "B"
  /\ call.results[2].md = <<"n", "n">>
  /\ call.out = [kind |-> "record", title |-> "T", byline |-> "B", markdown |-> <<"n", "n">>]

\* ---- 'disconnected' from a browser that is no longer the current one ----

\* browser b goes away in this step while another browser, live, is the
\* current instance
StaleDisconnect(b) ==
  /\ live[b] = "live"
  /\ live'[b] = "dead"
  /\ globalBrowser # Null
  /\ globalBrowser # b
  /\ live[globalBrowser] = "live"

\* C33: the 'disconnected' event of a browser that has been replaced as the
\* current instance leaves the manager's reference to the current, live
\* instance in place.
C33_StaleDisconnectIgnored ==
  [][\A b \in Browsers : StaleDisconnect(b) => globalBrowser' = globalBrowser]_vars

\* ---- rotation and the tabs of other requests ----

\* in this step the getBrowser() call of request q starts a rotation: a
\* threshold is crossed and initBrowser calls close() on the current browser
Rotates(q) ==
  /\ pc[q] = "idle"
  /\ pc'[q] = "closing"
  /\ why'[q] \in {"count", "age"}

\* C34: the rotation started by one request's getBrowser() does not call
\* close() on a browser in which another request, still in flight, has an
\* open tab.
C34_RotationSparesOpenTabs ==
  [][\A p, q \in Crawls :
       (p # q /\ Rotates(q) /\ InFlight(p) /\ TabOpen(p)) => target'[q] # ret[p]]_vars

\* ---- the first getBrowser() during the startup launch ----

\* the first getBrowser() call, by p, found no browser and has returned; no
\* browser went away and nobody called close()
FirstAcquireReturned(p) ==
  /\ calls = 1
  /\ why[p] = "null"
  /\ pc[p] = "done"
  /\ closeReq = {}
  /\ \A b \in Browsers : live[b] # "dead"

\* C35: when the first getBrowser() arrives before the startup launch has
\* given the manager its browser, one browser is launched in all: the call
\* returns it, it is the current instance, and no second browser is live.
C35_OneLaunchAtStartup ==
  \A p \in Requests :
    FirstAcquireReturned(p) =>
      /\ nextId = 1
      /\ ret[p] = globalBrowser
      /\ \A b \in Browsers : live[b] = "live" => b = globalBrowser

\* ---- extensions that cannot be initialized ----

\* in this step the initializeExtensions() call of caller p settles
ExtensionsOver(p) ==
  /\ pc[p] = "extensions"
  /\ call'.of[p] # call.of[p]
  /\ call'.of[p].stage = "none"

\* C36: initBrowser leaves `await initializeExtensions()` only to call
\* puppeteer.launch(); when every extension failed (downloadAllExtensions
\* threw), the launch gets the base arguments and nothing else, and
\* getBrowser() is not rejected by that failure.
C36_LaunchWithoutExtensions ==
  [][\A p \in Callers :
       /\ (pc[p] = "extensions" /\ pc'[p] # "extensions") => pc'[p] = "launching"
       /\ (ExtensionsOver(p) /\ \A e \in Extensions : call'.of[p].outcome[e] = "threw") =>
            /\ call'.of[p].result = "threw"
            /\ call'.of[p].args = BaseArgs
            /\ pc'[p] = "launching"]_vars

\* every extension failed in the initBrowser of a getBrowser() call, the
\* browser was launched with the base arguments and the call returned it
C36_Witness ==
  \E p \in One :
    /\ call.fn = "extensions"
    /\ pc[p] = "done"
    /\ call.of[p].result = "threw"
    /\ \A e \in Extensions : call.of[p].outcome[e] = "threw"
    /\ call.of[p].args = BaseArgs
    /\ ret[p] = globalBrowser
    /\ live[ret[p]] = "live"

\* ---- the directory of an extension that failed ----

\* in this step downloadSingleExtension of caller p finds the directory of
\* extension e and returns it as already downloaded
ReturnsExisting(p, e) ==
  /\ pc[p] = "extensions"
  /\ LoopOf(p).stage = "access"
  /\ LoopOf(p).at = e
  /\ call'.of[p].outcome[e] = "returned"

\* C37: downloadSingleExtension returns an extension's directory as already
\* downloaded only when that extension has been downloaded and extracted in
\* full; after a failed download or extraction it downloads and extracts
\* again.
C37_ExistingMeansComplete ==
  [][\A p \in Callers, e \in Extensions :
       ReturnsExisting(p, e) => call.disk[e] = "complete"]_vars

\* ---- downloadAllExtensions and the extensions that fail ----

\* EXTENSIONS_CONFIG in its order
Configured == <<1, 2, 3>>

\* the extensions for which downloadSingleExtension returned, in the order
\* of the configuration
Succeeded(l) == SelectSeq(Configured, LAMBDA e : l.outcome[e] = "returned")

\* C38: when the loop of downloadAllExtensions is over, downloadSingleExtension
\* has been called for every configured extension, whatever failed before
\* it; extensionPaths holds the extensions that succeeded and no other, in
\* the order of the configuration; and downloadAllExtensions throws exactly
\* when none succeeded, otherwise the paths go into the launch arguments.
C38_FailuresSkipped ==
  [][\A p \in Callers :
       ExtensionsOver(p) =>
         LET l == call'.of[p] IN
           /\ \A e \in Extensions : l.outcome[e] \in {"returned", "threw"}
           /\ l.paths = Succeeded(l)
           /\ l.result = "threw" <=> l.paths = <<>>
           /\ l.result = "returned" => l.args = BaseArgs \o GetExtensionArgs(l.paths)]_vars

\* the second extension failed, the first and the third were downloaded and
\* are the ones passed to the browser, in that order
C38_Witness ==
  \E p \in Callers :
    /\ call.fn = "extensions"
    /\ pc[p] = "launching"
    /\ call.of[p].outcome = [e \in Extensions |-> IF e = 2 THEN "threw" ELSE "returned"]
    /\ call.of[p].paths = <<1, 3>>
    /\ call.of[p].result = "returned"
    /\ call.disk = [e \in Extensions |-> IF e = 2 THEN "absent" ELSE "complete"]

====
